---- MODULE Spec2Model ----
(***************************************************************************)
(* The tool-orchestration loop of the pharmacy agent (src/agent/agent.py,  *)
(* run_agent), with the capability functions it dispatches to              *)
(* (src/agent/tools.py) and the tracing adapter (src/agent/observability.py)*)
(*                                                                         *)
(* Three specifications are given.                                         *)
(*   SpecCall  run_agent from the call itself: line 208 builds the system  *)
(*             prompt with str.format, outside the try block.              *)
(*   Spec      the body of run_agent from line 210 on: the transcript is   *)
(*             seeded and the bounded loop runs.  It describes the loop as *)
(*             it runs once a system prompt has been built.                *)
(*   FairSpec  Spec with the fairness of a single thread of control.       *)
(*                                                                         *)
(* Python values are modelled as follows.  A JSON scalar is a record       *)
(* [type, text]; a dict is a sequence of [key, val] pairs in insertion     *)
(* order; an Optional[str] is a string, None being the reserved PyNone.    *)
(* Interpreter resource limits (recursion depth, memory, the int digit     *)
(* limit) are outside the model.                                           *)
(***************************************************************************)
EXTENDS Integers, Sequences, FiniteSets, TLC

VARIABLES
    pc,            \* position of the run: CALLED, AWAITING_MODEL, EXECUTING_TOOLS, DONE, RAISED
    user_input,    \* argument of run_agent
    customer_id,   \* argument of run_agent
    max_steps,     \* argument of run_agent
    api_key_set,   \* config.OPENAI_API_KEY is set
    tracing,       \* observability._langfuse is not None
    langfuse_failing, \* the calls of the Langfuse client raise, once the trace is open
    messages,      \* the transcript
    step,          \* iterations of "for _ in range(max_steps)" begun so far
    tool_calls,    \* tool_calls of the latest model response
    idx,           \* index in tool_calls of the next invocation to execute
    result,        \* the dict run_agent returns
    trace_url,     \* the second component run_agent returns
    raised,        \* exception that left run_agent, "" when none
    spans,         \* names of the spans opened in Langfuse, in order
    end_traces,    \* calls of end_trace, in order
    exit,          \* which return statement ended the run
    llm_calls,     \* history: number of reasoning-model calls made
    handler_calls, \* history: number of capability handlers entered
    issued,        \* history: number of invocation requests received so far
    results,       \* history: the Invocation Result of each executed request
    last_content,  \* history: content of the latest model response without tool calls
    sent,          \* history: the transcript passed to the latest model call
    call,          \* one capability function called on its own: input and outcome
    db,            \* backend: committed rows (stock per medicine, orders, order items)
    reqs,          \* backend: the create_order requests and the position of each
    notices,       \* backend: warehouse webhooks and confirmation emails triggered
    refill,        \* backend: one refill computation: purchase dates, today, alert
    service,       \* backend: one call of get_refill_alerts_for_customer
    loader,        \* backend: the Excel files, the tables and the calls of load_initial_data
    runs,          \* two concurrent runs: the locals of each call of run_agent
    registry,      \* two concurrent runs: the module-level TOOL_DISPATCH
    inputs         \* two concurrent runs: history of what each run received

\* the variables of the single run of Spec and SpecCall
agent == <<pc, user_input, customer_id, max_steps, api_key_set, tracing, langfuse_failing,
           messages, step, tool_calls, idx, result, trace_url, raised, spans, end_traces,
           exit, llm_calls, handler_calls, issued, results, last_content, sent>>

\* the variables of the other specifications
backend == <<db, reqs, notices>>

outside == <<call, runs, registry, inputs, backend, refill, service, loader>>

BackendIdle ==
    /\ db = <<>> /\ reqs = <<>> /\ notices = <<>>
    /\ refill = <<>> /\ service = <<>> /\ loader = <<>>

vars == <<agent, outside>>

-----------------------------------------------------------------------------
(* Bounds of the model *)

\* largest max_steps argument explored
MaxSteps == 2
\* largest number of invocations in one model response
MaxCalls == 2
\* largest number of invocations the model requests in one run
MaxTotalCalls == 2

-----------------------------------------------------------------------------
(* Python and JSON values *)

PyNone == "None"

PyStr(s) == [type |-> "str", text |-> s]
PyInt(s) == [type |-> "int", text |-> s]
PyBool(b) == [type |-> "bool", text |-> IF b THEN "true" ELSE "false"]
PyList(s) == [type |-> "list", text |-> s]
Null == [type |-> "null", text |-> "null"]

Item(k, v) == [key |-> k, val |-> v]
Keys(d) == {d[i].key : i \in DOMAIN d}
HasKey(d, k) == k \in Keys(d)

\* dict.get(k): the value stored under k, None when the key is absent
Get(d, k) ==
    IF HasKey(d, k) THEN d[CHOOSE i \in DOMAIN d : d[i].key = k].val ELSE Null

\* json.dumps of a scalar
JsonValue(v) == IF v.type = "str" THEN "\"" \o v.text \o "\"" ELSE v.text

RECURSIVE JsonItems(_)
JsonItems(d) ==
    IF d = <<>> THEN ""
    ELSE "\"" \o Head(d).key \o "\": " \o JsonValue(Head(d).val)
         \o (IF Len(d) > 1 THEN ", " ELSE "") \o JsonItems(Tail(d))

\* json.dumps of a dict
JsonDumps(d) == "{" \o JsonItems(d) \o "}"

-----------------------------------------------------------------------------
(* The texts the reasoning model and the backend may produce *)

ORDER_ARGS ==
    <<Item("customer_id", PyInt("12")), Item("medicine_name", PyStr("Paracetamol")),
      Item("quantity", PyInt("5"))>>
MEDICINE_ARGS == <<Item("medicine_name", PyStr("Paracetamol"))>>

\* arguments texts of an invocation request: a create_order record, a
\* check_medicine_availability record, a truncated record, an array, nothing
RawArguments ==
    {JsonDumps(ORDER_ARGS), JsonDumps(MEDICINE_ARGS), "{\"medicine_name\": ", "[1]", PyNone}

\* the (capability name, arguments text) pairs the model may request:
\* create_order with every arguments text, check_medicine_availability with
\* the record texts, and a name that is not registered
RequestChoices ==
    ({"create_order"} \X RawArguments)
    \cup ({"check_medicine_availability"} \X
              {JsonDumps(ORDER_ARGS), JsonDumps(MEDICINE_ARGS), "{\"medicine_name\": "})
    \cup ({"cancel_order"} \X {JsonDumps(ORDER_ARGS)})

APPROVED_ANSWER ==
    <<Item("message", PyStr("Your order for 5 Paracetamol has been approved.")),
      Item("order_id", PyInt("7")), Item("status", PyStr("approved"))>>
SHIPPED_ANSWER == <<Item("status", PyStr("shipped"))>>

\* texts of a model response without tool calls
FinalContents ==
    {PyNone, "", "hello", "[1]", "null", "\"hello\"", JsonDumps(<<>>),
     JsonDumps(APPROVED_ANSWER), JsonDumps(SHIPPED_ANSWER)}

AVAILABILITY_BODY ==
    <<Item("available", PyBool(TRUE)), Item("stock_quantity", PyInt("50")),
      Item("prescription_required", PyBool(FALSE))>>
ORDER_APPROVED_BODY ==
    <<Item("status", PyStr("approved")), Item("order_id", PyInt("7")), Item("reason", Null)>>
ORDER_PENDING_BODY ==
    <<Item("status", PyStr("pending")), Item("order_id", PyInt("8")), Item("reason", Null)>>
ORDER_REJECTED_BODY ==
    <<Item("status", PyStr("rejected")), Item("order_id", Null),
      Item("reason", PyStr("Insufficient stock"))>>
\* bodies that are JSON objects but not of the backend's schema
AVAILABILITY_LIST_BODY ==
    <<Item("available", PyBool(TRUE)), Item("stock_quantity", PyList("[1]")),
      Item("prescription_required", PyBool(FALSE))>>
ORDER_LIST_STATUS_BODY ==
    <<Item("status", PyList("[\"approved\"]")), Item("order_id", PyInt("7")),
      Item("reason", Null)>>

\* every JSON object text of the model, as the dict it encodes
JsonObjects ==
    {<<>>, ORDER_ARGS, MEDICINE_ARGS, APPROVED_ANSWER, SHIPPED_ANSWER,
     AVAILABILITY_BODY, ORDER_APPROVED_BODY, ORDER_PENDING_BODY, ORDER_REJECTED_BODY,
     AVAILABILITY_LIST_BODY, ORDER_LIST_STATUS_BODY}

\* json.loads: the decoded value, or JSONDecodeError
JsonLoads(text) ==
    IF \E d \in JsonObjects : JsonDumps(d) = text
    THEN [kind |-> "dict", dict |-> CHOOSE d \in JsonObjects : JsonDumps(d) = text]
    ELSE CASE text = "[1]" -> [kind |-> "list", dict |-> <<>>]
           [] text = "null" -> [kind |-> "null", dict |-> <<>>]
           [] text = "\"hello\"" -> [kind |-> "str", dict |-> <<>>]
           [] text = "7" -> [kind |-> "int", dict |-> <<>>]
           [] OTHER -> [kind |-> "JSONDecodeError", dict |-> <<>>]

\* type(v).__name__ of a decoded value
PyTypeName(kind) == IF kind = "null" THEN "NoneType" ELSE kind

\* "x or default" on an Optional[str]
OrElse(x, default) == IF x = PyNone \/ x = "" THEN default ELSE x

-----------------------------------------------------------------------------
(* src/agent/tools.py: the capability functions *)

\* the backend's answer to one HTTP request: no answer at all (a
\* requests.RequestException), or a status code and a body
Unreachable == [kind |-> "unreachable", status |-> 0, text |-> "Connection refused"]
Http(code, body) == [kind |-> "http", status |-> code, text |-> body]

\* the answers explored for each capability's request
BackendResponses(name) ==
    CASE name = "check_medicine_availability" ->
           {Unreachable, Http(200, JsonDumps(AVAILABILITY_BODY)),
            Http(200, JsonDumps(AVAILABILITY_LIST_BODY))}
      [] name = "create_order" ->
           {Unreachable, Http(200, JsonDumps(ORDER_APPROVED_BODY)),
            Http(200, JsonDumps(ORDER_PENDING_BODY)),
            Http(200, JsonDumps(ORDER_REJECTED_BODY)), Http(200, "[1]"),
            Http(200, JsonDumps(ORDER_LIST_STATUS_BODY))}
      [] OTHER -> {Unreachable, Http(404, "{\"detail\": \"Not Found\"}"), Http(200, "[1]")}

\* what a call of a capability function does: return a dict or raise
Returns(d) == [raised |-> "", desc |-> "", value |-> d]
Raises(class, text) == [raised |-> class, desc |-> text, value |-> <<>>]

\* dict.get(k, default)
GetOr(d, k, default) == IF HasKey(d, k) THEN Get(d, k) ELSE default

\* truth value of a Python value
Truthy(v) ==
    CASE v.type = "bool" -> v.text = "true"
      [] v.type = "int" -> v.text # "0"
      [] v.type = "str" -> v.text # ""
      [] v.type = "list" -> v.text # "[]"
      [] OTHER -> FALSE

\* response.raise_for_status() raises HTTPError, a RequestException
RaiseForStatus(resp) == resp.status >= 400

AvailabilityError(text) ==
    <<Item("available", PyBool(FALSE)), Item("stock_quantity", PyInt("0")),
      Item("prescription_required", PyBool(FALSE)), Item("error", PyStr(text))>>

check_medicine_availability(args, resp) ==
    IF resp.kind = "unreachable"
    THEN Returns(AvailabilityError("Request error: " \o resp.text))
    ELSE IF resp.status = 404 THEN Returns(AvailabilityError("Medicine not found"))
    ELSE IF RaiseForStatus(resp)
    THEN Returns(AvailabilityError("Request error: " \o ToString(resp.status) \o " Error"))
    ELSE LET data == JsonLoads(resp.text)
             stock == GetOr(data.dict, "stock_quantity", PyInt("0"))
         IN  IF data.kind = "JSONDecodeError"
             THEN Returns(AvailabilityError("Invalid JSON response from backend"))
             ELSE IF data.kind # "dict"
             THEN Raises("AttributeError",
                         "'" \o PyTypeName(data.kind) \o "' object has no attribute 'get'")
             ELSE IF Truthy(stock) /\ stock.type = "str"
             THEN Returns(AvailabilityError("Invalid JSON response from backend"))
             ELSE IF Truthy(stock) /\ stock.type = "list"
             THEN Raises("TypeError",
                         "int() argument must be a string, a bytes-like object "
                         \o "or a real number, not 'list'")
             ELSE Returns(
                 <<Item("available",
                        PyBool(Truthy(GetOr(data.dict, "available", PyBool(FALSE))))),
                   Item("stock_quantity",
                        IF ~Truthy(stock) THEN PyInt("0")
                        ELSE IF stock.type = "bool" THEN PyInt("1") ELSE stock),
                   Item("prescription_required",
                        PyBool(Truthy(GetOr(data.dict, "prescription_required", PyBool(FALSE))))),
                   Item("error", Null)>>)

OrderError(reason, text) ==
    <<Item("status", PyStr("rejected")), Item("order_id", Null),
      Item("reason", PyStr(reason)), Item("error", PyStr(text))>>

create_order(args, resp) ==
    IF resp.kind = "unreachable"
    THEN Returns(OrderError("Failed to contact backend service", "Request error: " \o resp.text))
    ELSE IF RaiseForStatus(resp)
    THEN Returns(OrderError("Failed to contact backend service",
                            "Request error: " \o ToString(resp.status) \o " Error"))
    ELSE LET data == JsonLoads(resp.text)
         IN  IF data.kind = "JSONDecodeError"
             THEN Returns(OrderError("Invalid response from backend service",
                                     "Invalid JSON response from backend"))
             ELSE IF data.kind # "dict"
             THEN Raises("AttributeError",
                         "'" \o PyTypeName(data.kind) \o "' object has no attribute 'get'")
             ELSE Returns(
                 <<Item("status", GetOr(data.dict, "status", PyStr("rejected"))),
                   Item("order_id", Get(data.dict, "order_id")),
                   Item("reason", Get(data.dict, "reason")),
                   Item("error", Null)>>)

\* get_customer_history and get_refill_alerts differ in the key only
ListResult(key, resp) ==
    IF resp.kind = "unreachable"
    THEN Returns(<<Item(key, PyList("[]")),
                   Item("error", PyStr("Request error: " \o resp.text))>>)
    ELSE IF resp.status = 404
    THEN Returns(<<Item(key, PyList("[]")), Item("error", PyStr("Customer not found"))>>)
    ELSE IF RaiseForStatus(resp)
    THEN Returns(<<Item(key, PyList("[]")),
                   Item("error", PyStr("Request error: " \o ToString(resp.status) \o " Error"))>>)
    ELSE LET data == JsonLoads(resp.text)
         IN  IF data.kind = "JSONDecodeError"
             THEN Returns(<<Item(key, PyList("[]")),
                            Item("error", PyStr("Invalid JSON response from backend"))>>)
             ELSE Returns(<<Item(key, PyList(IF data.kind = "list" THEN resp.text ELSE "[]")),
                            Item("error", Null)>>)

get_customer_history(args, resp) == ListResult("history", resp)

get_refill_alerts(args, resp) == ListResult("alerts", resp)

-----------------------------------------------------------------------------
(* src/agent/agent.py: the capability registry and one invocation *)

\* the names TOOL_DISPATCH maps
TOOL_DISPATCH ==
    {"check_medicine_availability", "create_order", "get_customer_history",
     "get_refill_alerts"}

\* the declared parameters of each capability function; none has a default
Parameters(name) ==
    CASE name = "check_medicine_availability" -> {"medicine_name"}
      [] name = "create_order" -> {"customer_id", "medicine_name", "quantity"}
      [] OTHER -> {"customer_id"}

\* mutant of BindRaisesTypeError: unexpected keywords are accepted
BindRaisesTypeError_IgnoresExtra(name, args) ==
    \/ args.kind # "dict"
    \/ ~(Parameters(name) \subseteq Keys(args.dict))

\* tool_fn(**args) raises TypeError before the function body runs: args is no
\* mapping, a parameter is missing, or a keyword is unexpected
BindRaisesTypeError(name, args) ==
    \/ args.kind # "dict"
    \/ Keys(args.dict) # Parameters(name)

\* the body of the capability function TOOL_DISPATCH maps name to
CallTool(name, args, resp) ==
    CASE name = "check_medicine_availability" -> check_medicine_availability(args.dict, resp)
      [] name = "create_order" -> create_order(args.dict, resp)
      [] name = "get_customer_history" -> get_customer_history(args.dict, resp)
      [] OTHER -> get_refill_alerts(args.dict, resp)

\* lines 238-242: the arguments the invocation is made with
DecodeArguments(raw) ==
    LET decoded == JsonLoads(OrElse(raw, "{}"))
    IN  IF decoded.kind = "JSONDecodeError" THEN [kind |-> "dict", dict |-> <<>>]
        ELSE decoded

ErrorResult(text) == <<Item("error", PyStr(text))>>

\* mutant of ToolResult: the name is not looked up before the call, and
\* calling None raises the TypeError of line 252
ToolResult_NoLookupCheck(func_name, args, resp) ==
    IF func_name \notin TOOL_DISPATCH \/ BindRaisesTypeError(func_name, args)
    THEN ErrorResult("Invalid arguments for tool " \o func_name)
    ELSE LET out == CallTool(func_name, args, resp)
         IN  CASE out.raised = "" -> out.value
               [] out.raised = "TypeError" ->
                    ErrorResult("Invalid arguments for tool " \o func_name)
               [] OTHER ->
                    ErrorResult("Tool " \o func_name \o " raised an exception: " \o out.desc)

\* lines 244-260: the Invocation Result of one requested invocation
ToolResult(func_name, args, resp) ==
    IF func_name \notin TOOL_DISPATCH
    THEN ErrorResult("Unknown tool: " \o func_name)
    ELSE IF BindRaisesTypeError(func_name, args)
    THEN ErrorResult("Invalid arguments for tool " \o func_name)
    ELSE LET out == CallTool(func_name, args, resp)
         IN  CASE out.raised = "" -> out.value
               [] out.raised = "TypeError" ->
                    ErrorResult("Invalid arguments for tool " \o func_name)
               [] OTHER ->
                    ErrorResult("Tool " \o func_name \o " raised an exception: " \o out.desc)

\* whether line 251 enters the body of a capability function
EntersHandler(func_name, args) ==
    func_name \in TOOL_DISPATCH /\ ~BindRaisesTypeError(func_name, args)

-----------------------------------------------------------------------------
(* src/agent/agent.py: the system prompt *)

Lit(text) == [field |-> FALSE, text |-> text]
Field(name) == [field |-> TRUE, text |-> name]

\* SYSTEM_PROMPT_TEMPLATE as str.format reads it: literal text and replacement
\* fields.  The braces of the five example responses are not doubled, so each
\* opens a replacement field whose name is the text up to the first colon.
\* The literal text is abridged.
SYSTEM_PROMPT_TEMPLATE ==
    <<Lit("You are an expert licensed pharmacist assistant. Current customer id: "),
      Field("customer_id"),
      Lit(". Respond with a single JSON object only. Examples of valid responses: "),
      Field(" \"message\""), Lit(" "),
      Field(" \"message\""), Lit(" "),
      Field(" \"message\""), Lit(" "),
      Field(" \"message\""), Lit(" "),
      Field(" \"message\""),
      Lit(" If the backend is unavailable or a tool fails, explain this.")>>

\* the keyword arguments of the format call of line 208
FormatArguments(cid) == [customer_id |-> ToString(cid)]

\* str.format raises KeyError for a replacement field no argument names
FormatRaises(template, kwargs) ==
    \E i \in DOMAIN template : template[i].field /\ template[i].text \notin DOMAIN kwargs

RECURSIVE FormatText(_, _)
FormatText(template, kwargs) ==
    IF template = <<>> THEN ""
    ELSE LET seg == Head(template)
         IN  (IF ~seg.field THEN seg.text
              ELSE IF seg.text \in DOMAIN kwargs THEN kwargs[seg.text]
              ELSE "{" \o seg.text \o "}")
             \o FormatText(Tail(template), kwargs)

\* mutant of SeedMessages: the request comes before the instructions
SeedMessages_UserFirst(system_prompt, input) ==
    <<[role |-> "user", content |-> input],
      [role |-> "system", content |-> system_prompt]>>

\* lines 210-213: the transcript a run starts with
SeedMessages(system_prompt, input) ==
    <<[role |-> "system", content |-> system_prompt],
      [role |-> "user", content |-> input]>>

-----------------------------------------------------------------------------
(* src/agent/observability.py *)

LANGFUSE_HOST == "https://cloud.langfuse.com"
TRACE_ID == "trace-1"

\* mutant of LogSpan: every span is opened twice
LogSpan_Twice(log, enabled, name) ==
    IF enabled THEN Append(Append(log, name), name) ELSE log

\* create_span, log_tool_call: a span is opened only when Langfuse is enabled
LogSpan(log, enabled, name) == IF enabled THEN Append(log, name) ELSE log

\* the calls of the Langfuse client are made and succeed
Logging == tracing /\ ~langfuse_failing

\* end_trace: the URL of the trace, None without a trace
TraceUrl(enabled) == IF enabled THEN LANGFUSE_HOST \o "/trace/" \o TRACE_ID ELSE PyNone

-----------------------------------------------------------------------------
(* src/agent/agent.py: run_agent *)

UserInputs == {"I need 5 Paracetamol", "Do I need any refills?", ""}
CustomerIds == {12, 34, 0}

Min(a, b) == IF a < b THEN a ELSE b

\* mutant of ParseFinal: the text is wrapped whatever it decodes to
ParseFinal_AlwaysWraps(raw) ==
    <<Item("message", PyStr(OrElse(raw, ""))), Item("status", PyStr("unknown"))>>

\* mutant of ParseFinal: every decoded value is returned, mapping or not
ParseFinal_AnyJson(raw) ==
    LET content == OrElse(raw, "")
        parsed == JsonLoads(content)
    IN  IF parsed.kind # "JSONDecodeError" THEN parsed.dict
        ELSE <<Item("message", PyStr(content)), Item("status", PyStr("unknown"))>>

\* lines 293-302: the Final Answer made of the text of a model response
ParseFinal(raw) ==
    LET content == OrElse(raw, "")
        parsed == JsonLoads(content)
    IN  IF parsed.kind = "dict" THEN parsed.dict
        ELSE <<Item("message", PyStr(content)), Item("status", PyStr("unknown"))>>

\* lines 309-312
BudgetAnswer ==
    <<Item("message",
           PyStr("The agent could not complete the request within the step limit.")),
      Item("status", PyStr("error"))>>

\* mutant of CaughtAnswer: the description of the failure is left out
CaughtAnswer_NoDescription(desc) ==
    <<Item("message", PyStr("Unexpected error in agent")),
      Item("status", PyStr("error"))>>

\* lines 318-321
CaughtAnswer(desc) ==
    <<Item("message", PyStr("Unexpected error in agent: " \o desc)),
      Item("status", PyStr("error"))>>

\* the failures of lines 221-222: get_client() without an API key, the
\* completion request, a response without choices
LLMFailures(key_set) ==
    IF ~key_set
    THEN {[class |-> "RuntimeError", desc |-> "OPENAI_API_KEY is not set.", requested |-> FALSE]}
    ELSE {[class |-> "APIConnectionError", desc |-> "Connection error.", requested |-> TRUE],
          [class |-> "IndexError", desc |-> "list index out of range", requested |-> TRUE]}

\* _call_llm line 187: create_span has no try, so a failure of the Langfuse
\* client leaves _call_llm before the completion is requested
CreateSpanRaises == tracing /\ langfuse_failing

SpanFailure ==
    [class |-> "Exception", desc |-> "Langfuse span could not be started",
     requested |-> FALSE]

\* the failures of one call of _call_llm, in the order of its statements:
\* get_client (line 175), create_span (line 187), the completion (line 188)
CallFailures ==
    IF ~api_key_set THEN LLMFailures(FALSE)
    ELSE IF CreateSpanRaises THEN {SpanFailure}
    ELSE LLMFailures(TRUE)

\* mutant of HasBudget: the loop runs one iteration more
HasBudget_OffByOne == step <= max_steps

\* mutant of HasBudget: the loop has no bound
HasBudget_Unbounded == TRUE

\* mutant of HasBudget: the body of the loop runs once before the test
HasBudget_TestedAfter == step = 0 \/ step < max_steps

\* the loop of line 220 has an iteration left
HasBudget == step < max_steps

\* the invocation requests of one model response, with fresh ids
Requests(n, choice) ==
    [i \in 1..n |->
        [id |-> "call_" \o ToString(issued + i),
         function |-> [name |-> choice[i][1], arguments |-> choice[i][2]]]]

\* mutant of ToolMessage: the message carries the capability name as its id
ToolMessage_NameAsId(tool_call, tool_result) ==
    [role |-> "tool", tool_call_id |-> tool_call.function.name,
     name |-> tool_call.function.name, content |-> JsonDumps(tool_result)]

\* lines 280-287: the tool-result message appended for an invocation
ToolMessage(tool_call, tool_result) ==
    [role |-> "tool", tool_call_id |-> tool_call.id,
     name |-> tool_call.function.name, content |-> JsonDumps(tool_result)]

\* mutant of AfterRequest: the requests of the last round are not executed
AfterRequest_SkipsLastRound(round, limit) ==
    IF round >= limit THEN "AWAITING_MODEL" ELSE "EXECUTING_TOOLS"

\* lines 225-236: the requests of a round are executed, whichever round it is
AfterRequest(round, limit) == "EXECUTING_TOOLS"

\* mutant of AfterInvocation: the round ends with its first invocation
AfterInvocation_Break(i, n) == "AWAITING_MODEL"

\* mutant of AfterInvocation: the run ends with the last invocation of a round
AfterInvocation_Ends(i, n) == IF i = n THEN "DONE" ELSE "EXECUTING_TOOLS"

\* lines 236, 290: where the run stands after invocation i of n
AfterInvocation(i, n) == IF i = n THEN "AWAITING_MODEL" ELSE "EXECUTING_TOOLS"

\* mutant of Return: the run returns without calling end_trace
Return_NoEndTrace(res, error, how) ==
    /\ result' = res
    /\ end_traces' = end_traces
    /\ trace_url' = PyNone
    /\ exit' = how
    /\ pc' = "DONE"

\* mutant of Return: the answer is recorded and the loop goes on
Return_KeepsRunning(res, error, how) ==
    /\ result' = res
    /\ end_traces' = Append(end_traces, [output |-> res, error |-> error])
    /\ trace_url' = TraceUrl(Logging)
    /\ exit' = how
    /\ pc' = "AWAITING_MODEL"

\* end_trace(trace, result[, error]) and the return that follows it
Return(res, error, how) ==
    /\ result' = res
    /\ end_traces' = Append(end_traces, [output |-> res, error |-> error])
    /\ trace_url' = TraceUrl(Logging)
    /\ exit' = how
    /\ pc' = "DONE"

\* the variables of the other specifications, at rest
OutsideIdle ==
    /\ call = <<>>
    /\ BackendIdle
    /\ runs = <<>>
    /\ registry = {}
    /\ inputs = <<>>

\* the state of a run that has not appended or logged anything
Fresh ==
    /\ step = 0
    /\ tool_calls = <<>>
    /\ idx = 1
    /\ result = <<>>
    /\ trace_url = PyNone
    /\ raised = ""
    /\ end_traces = <<>>
    /\ exit = ""
    /\ llm_calls = 0
    /\ handler_calls = 0
    /\ issued = 0
    /\ results = <<>>
    /\ last_content = PyNone
    /\ sent = <<>>

\* the process-wide configuration (config.py, observability.py line 21-25) and
\* the max_steps argument
Configuration ==
    /\ max_steps \in -1..MaxSteps
    /\ api_key_set \in BOOLEAN
    /\ tracing \in BOOLEAN
    /\ langfuse_failing \in BOOLEAN
    /\ langfuse_failing => tracing

\* the state at line 219: the transcript is seeded (lines 210-213) and the
\* trace is open (line 218).  The system prompt is the template with the
\* customer id filled in and the example responses left as they are written.
Init ==
    /\ user_input = "I need 5 Paracetamol"
    /\ customer_id = 12
    /\ Configuration
    /\ pc = "AWAITING_MODEL"
    /\ messages = SeedMessages(
           FormatText(SYSTEM_PROMPT_TEMPLATE, FormatArguments(customer_id)), user_input)
    /\ spans = LogSpan(<<>>, tracing, "pharmacy-agent-run")
    /\ Fresh
    /\ OutsideIdle

\* lines 221-233: the model answers with invocation requests
LLMRequestsTools ==
    /\ pc = "AWAITING_MODEL"
    /\ HasBudget
    /\ api_key_set
    /\ ~CreateSpanRaises
    /\ \E n \in 1..Min(MaxCalls, MaxTotalCalls - issued) :
         \E choice \in [1..n -> RequestChoices] :
            /\ tool_calls' = Requests(n, choice)
            /\ messages' = Append(messages,
                   [role |-> "assistant", content |-> PyNone,
                    tool_calls |-> Requests(n, choice)])
            /\ issued' = issued + n
    /\ idx' = 1
    /\ step' = step + 1
    /\ llm_calls' = llm_calls + 1
    /\ spans' = LogSpan(spans, Logging, "llm-generation")
    /\ sent' = messages
    /\ pc' = AfterRequest(step + 1, max_steps)
    /\ UNCHANGED <<user_input, customer_id, max_steps, api_key_set, tracing,
                   langfuse_failing, result,
                   trace_url, raised, end_traces, exit, handler_calls, results,
                   last_content>>
    /\ UNCHANGED outside

\* lines 221-224, 293-306: the model answers with text only
LLMAnswers ==
    /\ pc = "AWAITING_MODEL"
    /\ HasBudget
    /\ api_key_set
    /\ ~CreateSpanRaises
    /\ \E content \in FinalContents :
         /\ last_content' = content
         /\ Return(ParseFinal(content), PyNone, "final")
    /\ step' = step + 1
    /\ llm_calls' = llm_calls + 1
    /\ spans' = LogSpan(spans, Logging, "llm-generation")
    /\ sent' = messages
    /\ UNCHANGED <<user_input, customer_id, max_steps, api_key_set, tracing,
                   langfuse_failing, messages,
                   tool_calls, idx, raised, handler_calls, issued, results>>
    /\ UNCHANGED outside

\* lines 221-222, 316-324: the model call fails and the failure is caught
LLMCallFails ==
    /\ pc = "AWAITING_MODEL"
    /\ HasBudget
    /\ \E failure \in CallFailures :
         /\ Return(CaughtAnswer(failure.desc), failure.desc, "caught")
         /\ spans' = LogSpan(spans, Logging /\ failure.requested, "llm-generation")
    /\ step' = step + 1
    /\ llm_calls' = llm_calls + 1
    /\ sent' = messages
    /\ UNCHANGED <<user_input, customer_id, max_steps, api_key_set, tracing,
                   langfuse_failing, messages,
                   tool_calls, idx, raised, handler_calls, issued, results, last_content>>
    /\ UNCHANGED outside

\* mutant of NextCall: the requests are taken from the last to the first
NextCall_Reversed(calls, i) == calls[Len(calls) + 1 - i]

\* line 236: the i-th iteration of "for tool_call in tool_calls"
NextCall(calls, i) == calls[i]

\* hash(v) succeeds: a list is not hashable
Hashable(v) == v.type # "list"

\* lines 267-272: the test for an order that triggers the warehouse; the
\* operands of "and" are evaluated from left to right
OrderPlaced(func_name, tool_result) ==
    /\ func_name = "create_order"
    /\ Get(tool_result, "order_id") # Null

\* line 271: membership in a set hashes the status and raises TypeError
WebhookTestRaises(func_name, tool_result) ==
    OrderPlaced(func_name, tool_result) /\ ~Hashable(Get(tool_result, "status"))

\* mutant of WarehouseWebhook: only an approved order notifies the warehouse
WarehouseWebhook_ApprovedOnly(func_name, tool_result) ==
    /\ OrderPlaced(func_name, tool_result)
    /\ Get(tool_result, "status") = PyStr("approved")

WarehouseWebhook(func_name, tool_result) ==
    /\ OrderPlaced(func_name, tool_result)
    /\ Get(tool_result, "status") \in {PyStr("approved"), PyStr("pending")}

\* what line 251 did: the handler's outcome, nothing raised when no handler
\* body was entered
HandlerOutcome(func_name, args, resp) ==
    IF EntersHandler(func_name, args) THEN CallTool(func_name, args, resp)
    ELSE Returns(<<>>)

\* lines 236-290: one iteration of "for tool_call in tool_calls"; an exception
\* of line 271 is caught at line 316
ExecuteToolCall ==
    /\ pc = "EXECUTING_TOOLS"
    /\ idx <= Len(tool_calls)
    /\ LET tool_call == NextCall(tool_calls, idx)
           func_name == tool_call.function.name
           args == DecodeArguments(tool_call.function.arguments)
       IN  \E resp \in BackendResponses(func_name) :
             LET tool_result == ToolResult(func_name, args, resp)
                 outcome == HandlerOutcome(func_name, args, resp)
             IN  /\ handler_calls' =
                        handler_calls + (IF EntersHandler(func_name, args) THEN 1 ELSE 0)
                 /\ results' = Append(results,
                        [id |-> tool_call.id, name |-> func_name,
                         arguments |-> tool_call.function.arguments,
                         result |-> tool_result,
                         raised |-> outcome.raised, desc |-> outcome.desc])
                 /\ IF WebhookTestRaises(func_name, tool_result)
                    THEN /\ spans' = LogSpan(spans, Logging, "tool:" \o func_name)
                         /\ Return(CaughtAnswer("unhashable type: 'list'"),
                                   "unhashable type: 'list'", "caught")
                         /\ UNCHANGED <<messages, idx>>
                    ELSE /\ spans' =
                               LogSpan(LogSpan(spans, Logging, "tool:" \o func_name),
                                       Logging /\ WarehouseWebhook(func_name, tool_result),
                                       "tool:warehouse_webhook")
                         /\ messages' = Append(messages, ToolMessage(tool_call, tool_result))
                         /\ idx' = idx + 1
                         /\ pc' = AfterInvocation(idx, Len(tool_calls))
                         /\ UNCHANGED <<result, trace_url, end_traces, exit>>
    /\ UNCHANGED <<user_input, customer_id, max_steps, api_key_set, tracing,
                   langfuse_failing, step,
                   tool_calls, raised, llm_calls, issued, last_content, sent>>
    /\ UNCHANGED outside

\* lines 308-315: the loop ends without a final answer
BudgetExhausted ==
    /\ pc = "AWAITING_MODEL"
    /\ ~HasBudget
    /\ Return(BudgetAnswer, PyNone, "budget")
    /\ UNCHANGED <<user_input, customer_id, max_steps, api_key_set, tracing,
                   langfuse_failing, messages,
                   step, tool_calls, idx, raised, spans, handler_calls, issued,
                   llm_calls, results, last_content, sent>>
    /\ UNCHANGED outside

Next == LLMRequestsTools \/ LLMAnswers \/ LLMCallFails \/ ExecuteToolCall \/ BudgetExhausted

Spec == Init /\ [][Next]_vars

\* run_agent runs on one thread: a step that can be taken is taken
FairSpec == Spec /\ WF_vars(Next)

-----------------------------------------------------------------------------
(* run_agent from the call *)

\* a call of run_agent, nothing executed yet
InitCall ==
    /\ user_input \in UserInputs
    /\ customer_id \in CustomerIds
    /\ Configuration
    /\ pc = "CALLED"
    /\ messages = <<>>
    /\ spans = <<>>
    /\ Fresh
    /\ OutsideIdle

\* lines 208-218: the system prompt is formatted, the transcript seeded and the
\* trace opened; an exception of line 208 leaves run_agent, no try encloses it
BuildPrompt ==
    /\ pc = "CALLED"
    /\ IF FormatRaises(SYSTEM_PROMPT_TEMPLATE, FormatArguments(customer_id))
       THEN /\ raised' = "KeyError"
            /\ pc' = "RAISED"
            /\ UNCHANGED <<messages, spans>>
       ELSE /\ messages' = SeedMessages(
                   FormatText(SYSTEM_PROMPT_TEMPLATE, FormatArguments(customer_id)),
                   user_input)
            /\ spans' = LogSpan(spans, tracing, "pharmacy-agent-run")
            /\ pc' = "AWAITING_MODEL"
            /\ UNCHANGED raised
    /\ UNCHANGED <<user_input, customer_id, max_steps, api_key_set, tracing,
                   langfuse_failing, step,
                   tool_calls, idx, result, trace_url, end_traces, exit, llm_calls,
                   handler_calls, issued, results, last_content, sent>>
    /\ UNCHANGED outside

SpecCall == InitCall /\ [][BuildPrompt]_vars

-----------------------------------------------------------------------------
(* Two concurrent calls of run_agent.  Everything a call works on is a local *)
(* of its frame (lines 208-216); TOOL_DISPATCH is the module-level object    *)
(* both calls read.  A run is the record of its locals, and a step of a run  *)
(* is the function RunStep of that record and of what the run receives.      *)

RunIds == {1, 2}

RunCustomer(r) == IF r = 1 THEN 12 ELSE 34
RunInput(r) == IF r = 1 THEN "I need 5 Paracetamol" ELSE "Do I need any refills?"

\* the single-run variables, unused
AgentIdle ==
    /\ pc = "IDLE"
    /\ user_input = ""
    /\ customer_id = 0
    /\ max_steps = 0
    /\ api_key_set = FALSE
    /\ tracing = FALSE
    /\ langfuse_failing = FALSE
    /\ messages = <<>>
    /\ spans = <<>>
    /\ Fresh

\* lines 208-216: the locals of a call that has reached line 219
StartRun(r) ==
    [pc |-> "AWAITING_MODEL",
     messages |-> SeedMessages(
         FormatText(SYSTEM_PROMPT_TEMPLATE, FormatArguments(RunCustomer(r))), RunInput(r)),
     step |-> 0, tool_calls |-> <<>>, idx |-> 1, result |-> <<>>, exit |-> ""]

\* what a run receives: a model response with invocation requests, one with
\* text only, a failure of the model call, the backend's answer to the
\* current invocation, or nothing when the loop has run out
Event(kind, calls, text, resp) == [kind |-> kind, calls |-> calls, text |-> text, resp |-> resp]

TwoRunChoices ==
    {<<"create_order", JsonDumps(ORDER_ARGS)>>, <<"cancel_order", JsonDumps(ORDER_ARGS)>>}
TwoRunAnswers == {"hello", JsonDumps(APPROVED_ANSWER)}
TwoRunResponses(name) ==
    BackendResponses(name) \cap {Unreachable, Http(200, JsonDumps(ORDER_APPROVED_BODY))}

EventsFor(run, budget) ==
    CASE run.pc = "AWAITING_MODEL" /\ run.step < budget ->
           {Event("tools",
                  <<[id |-> "call_" \o ToString(run.step + 1),
                     function |-> [name |-> c[1], arguments |-> c[2]]]>>,
                  "", Unreachable) : c \in TwoRunChoices}
           \cup {Event("answer", <<>>, text, Unreachable) : text \in TwoRunAnswers}
           \cup {Event("fail", <<>>, "Connection error.", Unreachable)}
      [] run.pc = "AWAITING_MODEL" /\ ~(run.step < budget) ->
           {Event("exhausted", <<>>, "", Unreachable)}
      [] run.pc = "EXECUTING_TOOLS" ->
           {Event("backend", <<>>, "", resp) :
               resp \in TwoRunResponses(NextCall(run.tool_calls, run.idx).function.name)}
      [] OTHER -> {}

\* lines 236-290 for the current invocation of the run
RunInvocation(run, reg, resp) ==
    LET tool_call == NextCall(run.tool_calls, run.idx)
        func_name == tool_call.function.name
        args == DecodeArguments(tool_call.function.arguments)
        tool_result == IF func_name \notin reg THEN ErrorResult("Unknown tool: " \o func_name)
                       ELSE ToolResult(func_name, args, resp)
    IN  IF WebhookTestRaises(func_name, tool_result)
        THEN [run EXCEPT !.result = CaughtAnswer("unhashable type: 'list'"),
                         !.exit = "caught", !.pc = "DONE"]
        ELSE [run EXCEPT !.messages = Append(@, ToolMessage(tool_call, tool_result)),
                         !.idx = @ + 1,
                         !.pc = AfterInvocation(run.idx, Len(run.tool_calls))]

\* lines 219-324: the locals of a run after it has received ev
RunStep(run, reg, ev) ==
    CASE ev.kind = "tools" ->
           [run EXCEPT !.messages = Append(@, [role |-> "assistant", content |-> PyNone,
                                               tool_calls |-> ev.calls]),
                       !.tool_calls = ev.calls, !.idx = 1, !.step = @ + 1,
                       !.pc = "EXECUTING_TOOLS"]
      [] ev.kind = "answer" ->
           [run EXCEPT !.result = ParseFinal(ev.text), !.exit = "final", !.step = @ + 1,
                       !.pc = "DONE"]
      [] ev.kind = "fail" ->
           [run EXCEPT !.result = CaughtAnswer(ev.text), !.exit = "caught", !.step = @ + 1,
                       !.pc = "DONE"]
      [] ev.kind = "exhausted" ->
           [run EXCEPT !.result = BudgetAnswer, !.exit = "budget", !.pc = "DONE"]
      [] OTHER -> RunInvocation(run, reg, ev.resp)

\* mutant of Store: the transcript is one module-level list for all calls
Store_SharedTranscript(rs, r, new) ==
    [q \in DOMAIN rs |-> IF q = r THEN new ELSE [rs[q] EXCEPT !.messages = new.messages]]

\* lines 210-216: messages, result and the loop counters are locals, so a
\* step of run r writes to the frame of r only
Store(rs, r, new) == [rs EXCEPT ![r] = new]

InitTwoRuns ==
    /\ AgentIdle
    /\ call = <<>>
    /\ BackendIdle
    /\ runs = [r \in RunIds |-> StartRun(r)]
    /\ registry = TOOL_DISPATCH
    /\ inputs = [r \in RunIds |-> <<>>]

\* one step of run r, at any point of the other run
RunSteps(r) ==
    /\ \E ev \in EventsFor(runs[r], MaxSteps) :
         /\ runs' = Store(runs, r, RunStep(runs[r], registry, ev))
         /\ inputs' = [inputs EXCEPT ![r] = Append(@, ev)]
    /\ UNCHANGED <<registry, call, backend, refill, service, loader>>
    /\ UNCHANGED agent

NextTwoRuns == \E r \in RunIds : RunSteps(r)

SpecTwoRuns == InitTwoRuns /\ [][NextTwoRuns]_vars

-----------------------------------------------------------------------------
(* src/agent/tools.py: a capability function called on its own, with          *)
(* arguments of its signature, for every kind of answer of the backend        *)

Timeout == [kind |-> "unreachable", status |-> 0, text |-> "Read timed out."]

\* the answers: no connection, a timeout, 404, another HTTP error, and 200
\* with a body that is no JSON, JSON that is no object, or a JSON object
ToolBackendResponses ==
    {Unreachable, Timeout, Http(404, "{\"detail\": \"Not Found\"}"),
     Http(500, "Internal Server Error"), Http(200, "<html>"), Http(200, "[1]"),
     Http(200, "null"), Http(200, "\"hello\""), Http(200, "7"), Http(200, JsonDumps(<<>>)),
     Http(200, JsonDumps(AVAILABILITY_BODY)), Http(200, JsonDumps(AVAILABILITY_LIST_BODY)),
     Http(200, JsonDumps(ORDER_APPROVED_BODY)), Http(200, JsonDumps(ORDER_PENDING_BODY)),
     Http(200, JsonDumps(ORDER_REJECTED_BODY)), Http(200, JsonDumps(ORDER_LIST_STATUS_BODY))}

\* arguments that fit the signature of the function
SignatureArguments(name) ==
    [kind |-> "dict",
     dict |-> CASE name = "check_medicine_availability" -> MEDICINE_ARGS
                [] name = "create_order" -> ORDER_ARGS
                [] OTHER -> <<Item("customer_id", PyInt("12"))>>]

InitTools ==
    /\ AgentIdle
    /\ BackendIdle
    /\ runs = <<>>
    /\ registry = {}
    /\ inputs = <<>>
    /\ \E name \in TOOL_DISPATCH, resp \in ToolBackendResponses :
         call = [name |-> name, resp |-> resp, done |-> FALSE, outcome |-> Returns(<<>>)]

\* the function is called and returns or raises
CallCapability ==
    /\ ~call.done
    /\ call' = [call EXCEPT !.done = TRUE,
                            !.outcome = CallTool(call.name, SignatureArguments(call.name),
                                                 call.resp)]
    /\ UNCHANGED <<runs, registry, inputs, backend, refill, service, loader>>
    /\ UNCHANGED agent

SpecTools == InitTools /\ [][CallCapability]_vars

-----------------------------------------------------------------------------
(* src/backend/app/routes/order_routes.py: POST /orders                       *)

\* the largest initial stock_quantity of a medicine
MaxStock == 2
\* the largest quantity a request asks for
MaxQuantity == 2
\* the number of create_order requests a behaviour receives
MaxRequests == 2

\* OrderResponse.order_id when no order was created (None)
NoOrder == 0

\* rows of the customers and medicines tables
CUSTOMERS == {[id |-> 1, email |-> "asha@example.com"], [id |-> 2, email |-> ""]}

MEDICINES ==
    {[id |-> 1, name |-> "Paracetamol", prescription_required |-> FALSE],
     [id |-> 2, name |-> "Amoxicillin", prescription_required |-> TRUE]}

MedicineIds == {m.id : m \in MEDICINES}

\* str.strip() and str.lower() on the names used
Strip(name) ==
    CASE name = " paracetamol " -> "paracetamol"
      [] name = "AMOXICILLIN " -> "AMOXICILLIN"
      [] OTHER -> name

Lower(name) ==
    CASE name = "Paracetamol" -> "paracetamol"
      [] name = "Amoxicillin" -> "amoxicillin"
      [] name = "AMOXICILLIN" -> "amoxicillin"
      [] name = "AMOXICILLIN " -> "amoxicillin "
      [] name = "Aspirin" -> "aspirin"
      [] name = "Ibuprofen" -> "ibuprofen"
      [] name = "Asha" -> "asha"
      [] name = "Ravi" -> "ravi"
      [] name = "Unknown" -> "unknown"
      [] OTHER -> name

\* db.query(Customer).filter(Customer.id == ...): the matching rows
FindCustomer(id) == {c \in CUSTOMERS : c.id = id}

\* db.query(Medicine).filter(func.lower(Medicine.name) == name.strip().lower())
FindMedicine(name) == {m \in MEDICINES : Lower(m.name) = Lower(Strip(name))}

OrderCreate(customer, name, quantity) ==
    [customer_id |-> customer, medicine_name |-> name, quantity |-> quantity]

OrderResponse(status, order, reason) ==
    [status |-> status, order_id |-> order, reason |-> reason]

\* request bodies: unknown and known customers and medicines, and quantities
\* from below zero to above the stock
Payloads ==
    {OrderCreate(9, "Aspirin", 0), OrderCreate(9, "Paracetamol", 1),
     OrderCreate(1, "Aspirin", 0), OrderCreate(1, "Aspirin", 1),
     OrderCreate(2, "AMOXICILLIN ", 1)}
    \cup {OrderCreate(1, name, q) : name \in {" paracetamol ", "Amoxicillin"},
                                     q \in -1..MaxQuantity}

\* what send_mock_webhook does: no URL configured, the POST goes through, the
\* POST fails with a RequestException (logged), or it raises something else
WebhookOutcomes == {"skipped", "delivered", "failed", "raised"}

Rejection_NoStockCheck(payload, stock) ==
    CASE FindCustomer(payload.customer_id) = {} -> "Customer not found"
      [] FindMedicine(payload.medicine_name) = {} -> "Medicine not found"
      [] payload.quantity <= 0 -> "Quantity must be greater than zero"
      [] OTHER -> ""

\* lines 41-57: the rejection of a request, "" when it is not rejected
Rejection(payload, stock) ==
    CASE FindCustomer(payload.customer_id) = {} -> "Customer not found"
      [] FindMedicine(payload.medicine_name) = {} -> "Medicine not found"
      [] payload.quantity <= 0 -> "Quantity must be greater than zero"
      [] stock[(CHOOSE m \in FindMedicine(payload.medicine_name) : TRUE).id]
             < payload.quantity -> "Insufficient stock"
      [] OTHER -> ""

StatusValue_AlwaysApproved(medicine) == "approved"

\* lines 59-61
StatusValue(medicine) == IF medicine.prescription_required THEN "pending" ELSE "approved"

\* line 77: the value written to the row, computed from the value read
Decrement(read, quantity) == read - quantity

\* lines 63-68: the primary key of the new order row
NextOrderId(orders) == Len(orders) + 1

InitBackend ==
    /\ AgentIdle
    /\ call = <<>>
    /\ runs = <<>>
    /\ registry = {}
    /\ inputs = <<>>
    /\ \E stock \in [MedicineIds -> 0..MaxStock] :
         db = [initial |-> stock, stock |-> stock, orders |-> <<>>, items |-> <<>>]
    /\ reqs = <<>>
    /\ notices = <<>>
    /\ refill = <<>>
    /\ service = <<>>
    /\ loader = <<>>

BackendFrame ==
    UNCHANGED <<call, runs, registry, inputs, refill, service, loader>> /\ UNCHANGED agent

InFlight(r) == reqs[r].pc # "DONE"

\* a request arrives
Receive(payload) ==
    /\ Len(reqs) < MaxRequests
    /\ reqs' = Append(reqs, [payload |-> payload, pc |-> "RECEIVED", medicine |-> 0,
                             read |-> 0, status |-> "", order_id |-> NoOrder,
                             response |-> OrderResponse("", NoOrder, "")])
    /\ UNCHANGED <<db, notices>>
    /\ BackendFrame

\* requests processed one at a time
ReceiveInTurn ==
    \E payload \in Payloads :
        /\ \A r \in 1..Len(reqs) : ~InFlight(r)
        /\ Receive(payload)

\* requests processed concurrently, each in its own session
ReceiveConcurrently == \E payload \in Payloads : Receive(payload)

LookupAndCheck_RejectsAfterAdd(r) ==
    /\ reqs[r].pc = "RECEIVED"
    /\ LET payload == reqs[r].payload
           reason == Rejection(payload, db.stock)
       IN IF reason # ""
          THEN /\ reqs' = [reqs EXCEPT ![r].pc = "DONE",
                                       ![r].response = OrderResponse("rejected", NoOrder, reason)]
               /\ db' = [db EXCEPT !.orders = Append(@, [id |-> NextOrderId(db.orders),
                                                         status |-> "rejected",
                                                         customer_id |-> payload.customer_id])]
          ELSE LET medicine == CHOOSE m \in FindMedicine(payload.medicine_name) : TRUE
               IN /\ reqs' = [reqs EXCEPT ![r].pc = "CHECKED",
                                          ![r].medicine = medicine.id,
                                          ![r].read = db.stock[medicine.id],
                                          ![r].status = StatusValue(medicine)]
                  /\ UNCHANGED db
    /\ UNCHANGED notices
    /\ BackendFrame

\* lines 41-61: the rows are read and the request is rejected or goes on
LookupAndCheck(r) ==
    /\ reqs[r].pc = "RECEIVED"
    /\ LET payload == reqs[r].payload
           reason == Rejection(payload, db.stock)
       IN IF reason # ""
          THEN reqs' = [reqs EXCEPT ![r].pc = "DONE",
                                    ![r].response = OrderResponse("rejected", NoOrder, reason)]
          ELSE LET medicine == CHOOSE m \in FindMedicine(payload.medicine_name) : TRUE
               IN reqs' = [reqs EXCEPT ![r].pc = "CHECKED",
                                       ![r].medicine = medicine.id,
                                       ![r].read = db.stock[medicine.id],
                                       ![r].status = StatusValue(medicine)]
    /\ UNCHANGED <<db, notices>>
    /\ BackendFrame

\* lines 63-80: the order, its item and the stock written from the value the
\* session read are flushed and committed
CommitOrder(r) ==
    /\ reqs[r].pc = "CHECKED"
    /\ LET id == NextOrderId(db.orders)
           req == reqs[r]
       IN /\ db' = [db EXCEPT
                       !.orders = Append(@, [id |-> id, status |-> req.status,
                                             customer_id |-> req.payload.customer_id]),
                       !.items = Append(@, [order_id |-> id, medicine_id |-> req.medicine,
                                            quantity |-> req.payload.quantity]),
                       !.stock[req.medicine] = Decrement(req.read, req.payload.quantity)]
          /\ reqs' = [reqs EXCEPT ![r].pc = "COMMITTED", ![r].order_id = id]
    /\ UNCHANGED notices
    /\ BackendFrame

trigger_warehouse_webhook_Propagates(r) ==
    /\ reqs[r].pc = "COMMITTED"
    /\ \E outcome \in WebhookOutcomes :
         LET webhook == [kind |-> "webhook", order_id |-> reqs[r].order_id,
                         outcome |-> outcome]
         IN /\ notices' = Append(notices, webhook)
            /\ reqs' = IF outcome = "raised"
                       THEN [reqs EXCEPT ![r].pc = "DONE",
                                         ![r].response = OrderResponse("error", NoOrder, "")]
                       ELSE [reqs EXCEPT ![r].pc = "NOTIFIED"]
    /\ UNCHANGED db
    /\ BackendFrame

\* lines 16-36 and webhook.py: the webhook, then the confirmation email unless
\* the webhook raised or the customer has no email; every exception is swallowed
trigger_warehouse_webhook(r) ==
    /\ reqs[r].pc = "COMMITTED"
    /\ \E outcome \in WebhookOutcomes :
         LET customer == CHOOSE c \in FindCustomer(reqs[r].payload.customer_id) : TRUE
             webhook == [kind |-> "webhook", order_id |-> reqs[r].order_id,
                         outcome |-> outcome]
             email == [kind |-> "email", order_id |-> reqs[r].order_id,
                       outcome |-> "logged"]
         IN notices' = IF outcome = "raised" \/ customer.email = ""
                       THEN Append(notices, webhook)
                       ELSE notices \o <<webhook, email>>
    /\ reqs' = [reqs EXCEPT ![r].pc = "NOTIFIED"]
    /\ UNCHANGED db
    /\ BackendFrame

\* line 85
ReturnResponse(r) ==
    /\ reqs[r].pc = "NOTIFIED"
    /\ reqs' = [reqs EXCEPT ![r].pc = "DONE",
                            ![r].response = OrderResponse(reqs[r].status, reqs[r].order_id, "")]
    /\ UNCHANGED <<db, notices>>
    /\ BackendFrame

Handle(r) ==
    \/ LookupAndCheck(r)
    \/ CommitOrder(r)
    \/ trigger_warehouse_webhook(r)
    \/ ReturnResponse(r)

NextBackend ==
    \/ ReceiveInTurn
    \/ \E r \in 1..Len(reqs) : Handle(r)

SpecBackend == InitBackend /\ [][NextBackend]_vars

NextConcurrent ==
    \/ ReceiveConcurrently
    \/ \E r \in 1..Len(reqs) : Handle(r)

SpecConcurrent == InitBackend /\ [][NextConcurrent]_vars

-----------------------------------------------------------------------------
(* src/backend/app/services/refill_service.py: the refill rule                *)

\* the most purchases of one medicine
MaxPurchases == 3
\* the latest day of a purchase
MaxPurchaseDay == 3

\* line 30 and line 37: the interval assumed without a positive gap
DEFAULT_INTERVAL_DAYS == 30

\* a datetime is a number of half days; datetime.date() is its day
HalfDays == 0..(2 * MaxPurchaseDay + 1)

Date(t) == t \div 2

RECURSIVE Insert(_, _)
Insert(t, sorted) ==
    IF sorted = <<>> THEN <<t>>
    ELSE IF t <= Head(sorted) THEN <<t>> \o sorted
    ELSE <<Head(sorted)>> \o Insert(t, Tail(sorted))

RECURSIVE Sorted(_)
\* line 26: sorted(dates)
Sorted(dates) == IF dates = <<>> THEN <<>> ELSE Insert(Head(dates), Sorted(Tail(dates)))

PositiveGaps_AllGaps(dates) ==
    [i \in 1..(Len(dates) - 1) |-> Date(dates[i + 1]) - Date(dates[i])]

\* lines 32-36: the day gaps above zero between consecutive purchases
PositiveGaps(dates) ==
    SelectSeq([i \in 1..(Len(dates) - 1) |-> Date(dates[i + 1]) - Date(dates[i])],
              LAMBDA gap : gap > 0)

RECURSIVE SumOf(_)
SumOf(deltas) == IF deltas = <<>> THEN 0 ELSE Head(deltas) + SumOf(Tail(deltas))

\* lines 29-37 and 40: the whole days of timedelta(days=avg_interval_days); a
\* date plus a timedelta leaves out the part of a day
IntervalDays(dates) ==
    LET deltas == PositiveGaps(dates)
    IN IF Len(dates) = 1 \/ deltas = <<>>
       THEN DEFAULT_INTERVAL_DAYS
       ELSE SumOf(deltas) \div Len(deltas)

NoAlert ==
    [present |-> FALSE, last_purchase_date |-> 0, estimated_refill_due_date |-> 0,
     days_overdue |-> 0]

\* lines 15-52
compute_alerts_for_medicine(unsorted, today) ==
    IF unsorted = <<>> THEN NoAlert
    ELSE LET dates == Sorted(unsorted)
             last_purchase == dates[Len(dates)]
             estimated_due_date == Date(last_purchase) + IntervalDays(dates)
         IN IF today <= estimated_due_date THEN NoAlert
            ELSE [present |-> TRUE, last_purchase_date |-> last_purchase,
                  estimated_refill_due_date |-> estimated_due_date,
                  days_overdue |-> today - estimated_due_date]

\* today, in days after the latest purchase: around the gaps between the
\* purchases and around the default interval
TodayOffsets ==
    (0..(MaxPurchaseDay + 1))
    \cup {DEFAULT_INTERVAL_DAYS - 1, DEFAULT_INTERVAL_DAYS, DEFAULT_INTERVAL_DAYS + 1}

Latest(dates) == IF dates = <<>> THEN 0 ELSE Sorted(dates)[Len(dates)]

InitRefill ==
    /\ AgentIdle
    /\ call = <<>>
    /\ runs = <<>>
    /\ registry = {}
    /\ inputs = <<>>
    /\ db = <<>>
    /\ reqs = <<>>
    /\ notices = <<>>
    /\ service = <<>>
    /\ loader = <<>>
    /\ \E n \in 0..MaxPurchases :
         \E dates \in [1..n -> HalfDays], offset \in TodayOffsets :
             refill = [dates |-> dates, today |-> Date(Latest(dates)) + offset,
                       done |-> FALSE, alert |-> NoAlert]

ComputeAlert ==
    /\ ~refill.done
    /\ refill' = [refill EXCEPT !.done = TRUE,
                                !.alert = compute_alerts_for_medicine(refill.dates,
                                                                      refill.today)]
    /\ UNCHANGED <<call, runs, registry, inputs, backend, service, loader>>
    /\ UNCHANGED agent

SpecRefill == InitRefill /\ [][ComputeAlert]_vars

-----------------------------------------------------------------------------
(* src/backend/app/services/refill_service.py: get_refill_alerts_for_customer *)

\* the most order rows of the customer for one medicine
MaxRowsPerMedicine == 2

\* today, in days after the latest purchase
ServiceOffsets == {1, MaxPurchaseDay + 1, DEFAULT_INTERVAL_DAYS + 1}

MedicineName(id) == (CHOOSE m \in MEDICINES : m.id = id).name

\* lines 71-82: the rows of one medicine, ordered by Order.created_at
RowsOf(table, id) ==
    [i \in 1..Len(table[id]) |->
        [medicine_id |-> id, name |-> MedicineName(id),
         created_at |-> Sorted(table[id])[i]]]

\* lines 71-82: the rows of the customer, ordered by Medicine.id, created_at
QueryRows(table) == RowsOf(table, 1) \o RowsOf(table, 2)

\* lines 87-94: the purchase dates recorded for one medicine
DatesOf(rows, id) ==
    LET mine == SelectSeq(rows, LAMBDA row : row.medicine_id = id)
    IN [i \in 1..Len(mine) |-> mine[i].created_at]

\* lines 97-103: the alert of one medicine, if there is one
AlertsOf(rows, id, today) ==
    LET alert == compute_alerts_for_medicine(DatesOf(rows, id), today)
    IN IF alert.present
       THEN <<[medicine_name |-> MedicineName(id),
               last_purchase_date |-> alert.last_purchase_date,
               estimated_refill_due_date |-> alert.estimated_refill_due_date,
               days_overdue |-> alert.days_overdue]>>
       ELSE <<>>

RECURSIVE InsertAlert(_, _)
InsertAlert(alert, sorted) ==
    IF sorted = <<>> THEN <<alert>>
    ELSE IF alert.days_overdue >= Head(sorted).days_overdue THEN <<alert>> \o sorted
    ELSE <<Head(sorted)>> \o InsertAlert(alert, Tail(sorted))

RECURSIVE SortAlerts(_)
\* line 105: alerts.sort(key=days_overdue, reverse=True), which keeps the
\* order of alerts with equal keys
SortAlerts(alerts) ==
    IF alerts = <<>> THEN <<>> ELSE InsertAlert(Head(alerts), SortAlerts(Tail(alerts)))

\* lines 87-106
Alerts(rows, today) == SortAlerts(AlertsOf(rows, 1, today) \o AlertsOf(rows, 2, today))

LatestOf(table) == Latest(table[1] \o table[2])

InitService ==
    /\ AgentIdle
    /\ call = <<>>
    /\ runs = <<>>
    /\ registry = {}
    /\ inputs = <<>>
    /\ db = <<>>
    /\ reqs = <<>>
    /\ notices = <<>>
    /\ refill = <<>>
    /\ loader = <<>>
    /\ \E n \in 0..MaxRowsPerMedicine, k \in 0..1 :
         \E first \in [1..n -> HalfDays], second \in [1..k -> HalfDays],
            offset \in ServiceOffsets :
             service = [table |-> <<first, second>>,
                        today |-> Date(LatestOf(<<first, second>>)) + offset,
                        pc |-> "CALLED", session |-> "none", closes |-> 0,
                        failed |-> "", rows |-> <<>>, result |-> <<>>, raised |-> ""]

ServiceFrame ==
    /\ UNCHANGED <<call, runs, registry, inputs, backend, refill, loader>>
    /\ UNCHANGED agent

\* lines 107-109: the except clause returns the empty list
ServiceFails(where) ==
    service' = [service EXCEPT !.pc = "FINALLY", !.failed = where, !.result = <<>>]

\* line 70: SessionLocal() returns a session or raises
OpenSession ==
    /\ service.pc = "CALLED"
    /\ \/ service' = [service EXCEPT !.pc = "OPENED", !.session = "open"]
       \/ ServiceFails("session")
    /\ ServiceFrame

\* lines 71-85: the query returns the rows or raises; no rows, empty list
RunQuery ==
    /\ service.pc = "OPENED"
    /\ \/ LET rows == QueryRows(service.table)
          IN service' = [service EXCEPT !.pc = IF rows = <<>> THEN "FINALLY" ELSE "FETCHED",
                                        !.rows = rows]
       \/ ServiceFails("query")
    /\ ServiceFrame

\* lines 87-106: the alerts are computed and sorted, or the computation raises
BuildAlerts ==
    /\ service.pc = "FETCHED"
    /\ \/ service' = [service EXCEPT !.pc = "FINALLY",
                                     !.result = Alerts(service.rows, service.today)]
       \/ ServiceFails("computation")
    /\ ServiceFrame

\* lines 110-112: the finally clause closes the session if one was opened;
\* an exception of session.close() replaces the return
CloseSession ==
    /\ service.pc = "FINALLY"
    /\ IF service.session = "none"
       THEN service' = [service EXCEPT !.pc = "RETURNED"]
       ELSE \/ service' = [service EXCEPT !.pc = "RETURNED", !.session = "closed",
                                          !.closes = @ + 1]
            \/ service' = [service EXCEPT !.pc = "RAISED", !.session = "closed",
                                          !.closes = @ + 1,
                                          !.raised = "OperationalError"]
    /\ ServiceFrame

NextService == OpenSession \/ RunQuery \/ BuildAlerts \/ CloseSession

SpecService == InitService /\ [][NextService]_vars

-----------------------------------------------------------------------------
(* src/backend/app/utils/load_excel_data.py: load_initial_data                *)

\* the most rows of the order history file
MaxHistoryRows == 2
\* the number of calls of load_initial_data in a behaviour
MaxLoads == 2

\* a time is a number of half seconds; date_trunc("second", t) is its second
Second(t) == t \div 2

\* the values of a date cell: a datetime, a text, or nothing
DateCell(kind, tick, text) == [kind |-> kind, tick |-> tick, text |-> text]

\* lines 60-68: the datetime of a cell; utcnow() for a missing cell and for
\* a text pandas cannot parse
ToDatetime(value, now) ==
    CASE value.kind = "datetime" -> value.tick
      [] value.kind = "missing" -> now
      [] value.text = "2024-01-05 10:00:00" -> 2
      [] OTHER -> now

\* lines 60-68: whether the cell makes _to_datetime read the clock
ReadsClock(value) ==
    \/ value.kind = "missing"
    \/ value.kind = "text" /\ value.text # "2024-01-05 10:00:00"

HistoryRow(customer, email, medicine, quantity, date) ==
    [customer_name |-> customer, customer_email |-> email, medicine_name |-> medicine,
     quantity |-> quantity, status |-> "completed", date |-> date]

\* rows of consumer-order-history.xlsx: a dated purchase, the same purchase
\* without a date and with a date that is no date, a purchase without a
\* customer of a medicine not in the products file, and rows that are skipped
HistoryRows ==
    {HistoryRow("Asha", "asha@example.com", "Paracetamol", 2, DateCell("datetime", 1, "")),
     HistoryRow("Asha", "asha@example.com", "Paracetamol", 2, DateCell("missing", 0, "")),
     HistoryRow("Ravi", "", " paracetamol ", 1, DateCell("text", 0, "not a date")),
     HistoryRow("", "", "Ibuprofen", 1, DateCell("text", 0, "2024-01-05 10:00:00")),
     HistoryRow("Asha", "asha@example.com", "Paracetamol", 0, DateCell("datetime", 1, "")),
     HistoryRow("Asha", "asha@example.com", "", 1, DateCell("missing", 0, ""))}

\* rows of products-export.xlsx
ProductRows == {[name |-> "Paracetamol", stock |-> 10, prescription_required |-> FALSE]}

EmptyTables == [medicines |-> <<>>, customers |-> <<>>, orders |-> <<>>, items |-> <<>>]

\* a session: the committed rows, the rows as the open transaction sees
\* them, the order items added but not flushed yet, and the clock
NewSession(tables, clock) ==
    [committed |-> tables, work |-> tables, pending |-> <<>>, clock |-> clock]

\* session.flush(): the pending order items are inserted
Flush(S) ==
    [S EXCEPT !.work.items =
                  @ \o [i \in 1..Len(S.pending) |->
                           [id |-> Len(S.work.items) + i,
                            order_id |-> S.pending[i].order_id,
                            medicine_id |-> S.pending[i].medicine_id,
                            quantity |-> S.pending[i].quantity,
                            created_at |-> S.pending[i].created_at]],
              !.pending = <<>>]

\* session.rollback(): everything since the last commit is dropped
Rollback(S) == [S EXCEPT !.work = S.committed, !.pending = <<>>]

\* session.commit()
Commit(S) == LET F == Flush(S) IN [F EXCEPT !.committed = F.work]

\* the positions of the rows of a table that satisfy Test
Matching(table, Test(_)) == {i \in 1..Len(table) : Test(table[i])}

First(positions) == CHOOSE i \in positions : \A j \in positions : i <= j

\* lines 103-107 and 162-166: the medicine of a name, 0 when there is none
MedicineOf(S, name) ==
    LET found == Matching(S.work.medicines, LAMBDA m : Lower(m.name) = Lower(Strip(name)))
    IN IF found = {} THEN 0 ELSE S.work.medicines[First(found)].id

\* lines 90-125: one row of the products file
UpsertMedicine(S, row) ==
    IF row.name = "" THEN S
    ELSE LET id == MedicineOf(S, row.name)
         IN IF id # 0
            THEN [S EXCEPT !.work.medicines[id].stock_quantity =
                               IF row.stock # 0 THEN row.stock ELSE @,
                           !.work.medicines[id].prescription_required =
                               row.prescription_required]
            ELSE [S EXCEPT !.work.medicines =
                               Append(@, [id |-> Len(@) + 1, name |-> Strip(row.name),
                                          stock_quantity |-> row.stock,
                                          prescription_required |->
                                              row.prescription_required])]

RECURSIVE UpsertRows(_, _)
UpsertRows(S, rows) ==
    IF rows = <<>> THEN S ELSE UpsertRows(UpsertMedicine(S, Head(rows)), Tail(rows))

\* lines 82-133
UpsertMedicines(S, products) == IF products = <<>> THEN S ELSE Commit(UpsertRows(S, products))

\* lines 136-151: the customer found by email, then by name; 0 when none
CustomerOf(S, name, email) ==
    LET by_email == IF email = "" THEN {}
                    ELSE Matching(S.work.customers,
                                  LAMBDA c : Lower(c.email) = Lower(Strip(email)))
        by_name == Matching(S.work.customers, LAMBDA c : Lower(c.name) = Lower(Strip(name)))
    IN IF by_email # {} THEN S.work.customers[First(by_email)].id
       ELSE IF by_name # {} THEN S.work.customers[First(by_name)].id
       ELSE 0

\* lines 136-156: the session after _get_or_create_customer
WithCustomer(S, name, email) ==
    LET id == CustomerOf(S, name, email)
    IN IF id # 0
       THEN IF email # "" /\ S.work.customers[id].email = ""
            THEN [S EXCEPT !.work.customers[id].email = Strip(email)]
            ELSE S
       ELSE Flush([S EXCEPT !.work.customers =
                                Append(@, [id |-> Len(@) + 1, name |-> Strip(name),
                                           email |-> Strip(email)])])

\* lines 159-176: the session after _get_or_create_medicine
WithMedicine(S, name) ==
    IF MedicineOf(S, name) # 0 THEN S
    ELSE Flush([S EXCEPT !.work.medicines =
                             Append(@, [id |-> Len(@) + 1, name |-> Strip(name),
                                        stock_quantity |-> 0,
                                        prescription_required |-> FALSE])])

\* lines 209-236: an order item of the customer, the medicine and the
\* quantity whose order was created at the time, compared by the second
\* (date_trunc) or exactly
ExistingItem(S, customer, medicine, quantity, created_at, by_second) ==
    \E i \in 1..Len(S.work.items), o \in 1..Len(S.work.orders) :
        /\ S.work.items[i].order_id = S.work.orders[o].id
        /\ S.work.orders[o].customer_id = customer
        /\ S.work.items[i].medicine_id = medicine
        /\ S.work.items[i].quantity = quantity
        /\ IF by_second
           THEN Second(S.work.orders[o].created_at) = Second(created_at)
           ELSE S.work.orders[o].created_at = created_at

\* lines 241-257: the order is added and flushed, its item is added
AddOrder(S, customer, medicine, row, created_at) ==
    LET F == Flush([S EXCEPT !.work.orders =
                                 Append(@, [id |-> Len(@) + 1, customer_id |-> customer,
                                            status |-> row.status,
                                            created_at |-> created_at])])
    IN [F EXCEPT !.pending = Append(@, [order_id |-> Len(F.work.orders),
                                        medicine_id |-> medicine,
                                        quantity |-> row.quantity,
                                        created_at |-> created_at])]

\* lines 187-257: one row of the history file. With date_trunc (PostgreSQL)
\* the item is looked for by the second of its time; without it (SQLite) the
\* failed query rolls the session back, the customer and the medicine keep
\* the ids they were given, and the item is looked for by its exact time
LoadRow(S, row, dialect) ==
    LET created_at == ToDatetime(row.date, S.clock)
        T == IF ReadsClock(row.date) THEN [S EXCEPT !.clock = @ + 1] ELSE S
    IN IF row.medicine_name = "" \/ row.quantity <= 0 THEN T
       ELSE LET name == IF row.customer_name = "" THEN "Unknown" ELSE row.customer_name
                C == WithCustomer(T, name, row.customer_email)
                customer == CustomerOf(C, name, row.customer_email)
                M == WithMedicine(C, row.medicine_name)
                medicine == MedicineOf(M, row.medicine_name)
                Q == IF dialect = "sqlite" THEN Rollback(M) ELSE M
                found == ExistingItem(Q, customer, medicine, row.quantity, created_at,
                                      dialect # "sqlite")
            IN IF found THEN Q ELSE AddOrder(Q, customer, medicine, row, created_at)

RECURSIVE LoadRows(_, _, _)
LoadRows(S, rows, dialect) ==
    IF rows = <<>> THEN S ELSE LoadRows(LoadRow(S, Head(rows), dialect), Tail(rows), dialect)

\* lines 179-264
LoadOrderHistory(S, history, dialect) ==
    IF history = <<>> THEN S ELSE Commit(LoadRows(S, history, dialect))

\* lines 267-285: the session after both files are loaded
LoadInitialData(tables, clock, products, history, dialect) ==
    LoadOrderHistory(UpsertMedicines(NewSession(tables, clock), products), history, dialect)

\* the time that passes before load_initial_data is called again
LoadDelays == {0, 2}

InitLoader ==
    /\ AgentIdle
    /\ call = <<>>
    /\ runs = <<>>
    /\ registry = {}
    /\ inputs = <<>>
    /\ db = <<>>
    /\ reqs = <<>>
    /\ notices = <<>>
    /\ refill = <<>>
    /\ service = <<>>
    /\ \E n \in 0..MaxHistoryRows, k \in 0..1 :
         \E history \in [1..n -> HistoryRows], products \in [1..k -> ProductRows],
            dialect \in {"postgresql", "sqlite"} :
             loader = [products |-> products, history |-> history, dialect |-> dialect,
                       tables |-> EmptyTables, clock |-> 10, calls |-> 0,
                       after_first |-> EmptyTables]

\* one call of load_initial_data, some time after the one before
LoadData ==
    /\ loader.calls < MaxLoads
    /\ \E delay \in LoadDelays :
         LET S == LoadInitialData(loader.tables, loader.clock + delay, loader.products,
                                  loader.history, loader.dialect)
         IN loader' = [loader EXCEPT !.tables = S.committed,
                                     !.clock = S.clock + 1,
                                     !.calls = @ + 1,
                                     !.after_first = IF loader.calls = 0 THEN S.committed
                                                     ELSE @]
    /\ UNCHANGED <<call, runs, registry, inputs, backend, refill, service>>
    /\ UNCHANGED agent

SpecLoader == InitLoader /\ [][LoadData]_vars

-----------------------------------------------------------------------------
(* The properties checked *)

\* the closed set of status values of a Final Answer (spec section 3)
StatusValues ==
    {PyStr("approved"), PyStr("pending"), PyStr("rejected"), PyStr("refill_suggested"),
     PyStr("ok"), PyStr("error"), PyStr("unknown")}

\* the four capabilities of the registry (spec section 6)
RegisteredCapabilities ==
    {"check_medicine_availability", "create_order", "get_customer_history",
     "get_refill_alerts"}

\* number of rounds in which the model requested invocations
ToolRounds == Cardinality({p \in DOMAIN messages : messages[p].role = "assistant"})

\* the parsing rule of spec section 4.4: the mapping the text encodes, else the
\* text wrapped with status unknown
ExpectedFinalAnswer(raw) ==
    LET text == IF raw = PyNone THEN "" ELSE raw
    IN  IF \E d \in JsonObjects : JsonDumps(d) = text
        THEN CHOOSE d \in JsonObjects : JsonDumps(d) = text
        ELSE <<Item("message", PyStr(text)), Item("status", PyStr("unknown"))>>

\* the invocation about to be executed
Current == tool_calls[idx]

\* the step executes the current invocation, answers it with an error result
\* of the given text without entering a handler, and goes on with the round
AnsweredWithError(text) ==
    /\ handler_calls' = handler_calls
    /\ results' = Append(results,
           [id |-> Current.id, name |-> Current.function.name,
            arguments |-> Current.function.arguments,
            result |-> <<Item("error", PyStr(text))>>, raised |-> "", desc |-> ""])
    /\ messages' = Append(messages,
           [role |-> "tool", tool_call_id |-> Current.id, name |-> Current.function.name,
            content |-> "{\"error\": \"" \o text \o "\"}"])
    /\ idx' = idx + 1
    /\ pc' = IF idx < Len(tool_calls) THEN "EXECUTING_TOOLS" ELSE "AWAITING_MODEL"
    /\ exit' = ""
    /\ raised' = ""

\* C1: for every behaviour of the model and the capabilities, run_agent
\* returns a (Final Answer, trace_url) pair; no exception leaves run_agent.
C1_NeverRaises == pc # "RAISED" /\ raised = ""

\* C2: every Final Answer run_agent returns has a message field and a status
\* field whose value is in the closed set of status values.
C2_FinalAnswerShape ==
    pc = "DONE" =>
        /\ HasKey(result, "message")
        /\ HasKey(result, "status")
        /\ Get(result, "status") \in StatusValues

\* C3: if the model requests invocations in every round up to max_steps, the
\* run makes exactly max_steps model calls and returns the fixed answer with
\* status error, an explanatory message and no order_id.
C3_BudgetExhaustion ==
    (pc = "DONE" /\ max_steps >= 0 /\ ToolRounds = max_steps) =>
        /\ llm_calls = max_steps
        /\ exit = "budget"
        /\ Keys(result) = {"message", "status"}
        /\ Get(result, "status") = PyStr("error")
        /\ Get(result, "message") =
               PyStr("The agent could not complete the request within the step limit.")

C3_Witness ==
    /\ pc = "DONE"
    /\ max_steps = 2
    /\ ToolRounds = 2
    /\ \E i \in DOMAIN results : Get(results[i].result, "order_id") = PyInt("7")

\* the rounds a run may begin
Budget == IF max_steps < 0 THEN 0 ELSE max_steps

\* the invocations of the current round not yet answered
Unanswered == IF pc = "EXECUTING_TOOLS" THEN Len(tool_calls) - idx + 1 ELSE 0

\* C4: a run reaches DONE, after at most max_steps model calls and at most
\* max_steps rounds of tool execution (none when max_steps < 0): the counts
\* stay within the budget, a run that is not DONE can always take a step, and
\* every step ends the run, begins a round of the budget or answers one of
\* the finitely many invocations of the round.
C4_BoundedTermination ==
    /\ [](/\ llm_calls <= Budget
          /\ ToolRounds <= Budget
          /\ step <= Budget
          /\ Unanswered >= 0)
    /\ [](pc # "DONE" => ENABLED Next)
    /\ [][/\ pc # "DONE"
          /\ \/ pc' = "DONE"
             \/ step' = step + 1
             \/ step' = step /\ Unanswered' < Unanswered]_vars

\* a run reaches DONE, stated as liveness under FairSpec
EventuallyDone == <>(pc = "DONE")

C4_Witness == pc = "DONE" /\ max_steps = 2 /\ llm_calls = 2 /\ ToolRounds = 1

\* the assistant message at position p is followed by exactly as many
\* tool-result messages as it requests invocations, one for each request id
RoundAnswered(p) ==
    LET calls == messages[p].tool_calls
        n == Len(calls)
    IN  /\ p + n <= Len(messages)
        /\ \A i \in 1..n : messages[p + i].role = "tool"
        /\ p + n < Len(messages) => messages[p + n + 1].role # "tool"
        /\ \A i \in 1..n :
              Cardinality({j \in DOMAIN messages :
                              /\ messages[j].role = "tool"
                              /\ messages[j].tool_call_id = calls[i].id}) = 1

\* C5: at every model call after the first, every invocation request of every
\* assistant message has exactly one tool-result message with its id, and an
\* assistant message with N requests is followed by exactly N tool-results.
C5_RoundTrip ==
    (pc = "AWAITING_MODEL" /\ llm_calls >= 1) =>
        \A p \in DOMAIN messages : messages[p].role = "assistant" => RoundAnswered(p)

C5_Witness ==
    /\ pc = "AWAITING_MODEL"
    /\ llm_calls = 1
    /\ HasBudget
    /\ Len(messages) = 5
    /\ messages[3].role = "assistant"
    /\ Len(messages[3].tool_calls) = 2

\* C6: if the first model response holds no invocation request, the run ends
\* after that one model call, enters no handler, appends nothing to the
\* transcript and returns the parsed text.
C6_FirstAnswerEndsRun ==
    /\ [][(llm_calls = 0 /\ llm_calls' = 1 /\ tool_calls' = <<>> /\ exit' # "caught") =>
            /\ pc' = "DONE"
            /\ exit' = "final"
            /\ messages' = messages
            /\ handler_calls' = 0
            /\ result' = ExpectedFinalAnswer(last_content')]_vars
    /\ []((pc = "DONE" /\ exit = "final" /\ ToolRounds = 0) =>
            llm_calls = 1 /\ handler_calls = 0 /\ Len(messages) = 2)

C6_Witness ==
    /\ pc = "DONE"
    /\ exit = "final"
    /\ llm_calls = 1
    /\ Len(messages) = 2
    /\ result = APPROVED_ANSWER

\* C7: the Final Answer of a text-only response is the decoded value when the
\* text decodes to a mapping, and otherwise (a list, number, string or null,
\* undecodable, empty or absent text) the text wrapped as message with status
\* unknown; the text hello gives {message: "hello", status: "unknown"}.
C7_FinalAnswerParsing ==
    (pc = "DONE" /\ exit = "final") =>
        /\ result = ExpectedFinalAnswer(last_content)
        /\ last_content \in {PyNone, "", "hello", "[1]", "null", "\"hello\""} =>
              /\ Keys(result) = {"message", "status"}
              /\ Get(result, "status") = PyStr("unknown")
              /\ Get(result, "message") = PyStr(IF last_content = PyNone THEN "" ELSE last_content)
        /\ last_content = "hello" =>
              result = <<Item("message", PyStr("hello")), Item("status", PyStr("unknown"))>>

C7_Witness ==
    /\ pc = "DONE"
    /\ exit = "final"
    /\ last_content = "[1]"
    /\ Get(result, "message") = PyStr("[1]")
    /\ ToolRounds = 1

\* C8: an invocation of a name the registry does not hold enters no handler,
\* is answered by a tool-result whose error field reports the unknown
\* capability, and does not end the round or the run.
C8_UnknownCapability ==
    [][(pc = "EXECUTING_TOOLS" /\ Current.function.name \notin RegisteredCapabilities) =>
          AnsweredWithError("Unknown tool: " \o Current.function.name)]_vars

C8_Witness ==
    /\ pc = "DONE"
    /\ exit = "final"
    /\ Len(results) = 2
    /\ Len(tool_calls) = 2
    /\ results[1].name = "cancel_order"
    /\ results[2].name = "create_order"
    /\ Get(results[2].result, "status") = PyStr("approved")

\* the arguments texts that do not decode
UndecodableArguments == {"{\"medicine_name\": "}

\* C9: when the arguments of an invocation do not decode, the Invocation
\* Result has an error field that reports malformed arguments, not invalid
\* arguments and not an unknown capability.
C9_MalformedArguments ==
    \A i \in DOMAIN results :
        results[i].arguments \in UndecodableArguments =>
            /\ HasKey(results[i].result, "error")
            /\ Get(results[i].result, "error") \notin
                   {PyStr("Invalid arguments for tool " \o results[i].name),
                    PyStr("Unknown tool: " \o results[i].name)}

\* the decoded arguments do not fit the parameters of the capability: no
\* mapping, a required field missing, or a field the capability does not have
ArgumentsMismatch(name, raw) ==
    \/ raw = "[1]"
    \/ raw = PyNone
    \/ name = "create_order" /\ raw = JsonDumps(MEDICINE_ARGS)
    \/ name = "check_medicine_availability" /\ raw = JsonDumps(ORDER_ARGS)

\* C10: an invocation of a registered capability whose decoded arguments do
\* not fit its parameters is answered by an error result reporting invalid
\* arguments; nothing is raised and the round and the run go on.
C10_InvalidArguments ==
    [][(/\ pc = "EXECUTING_TOOLS"
        /\ Current.function.name \in RegisteredCapabilities
        /\ ArgumentsMismatch(Current.function.name, Current.function.arguments)) =>
          AnsweredWithError("Invalid arguments for tool " \o Current.function.name)]_vars

C10_Witness ==
    /\ pc = "DONE"
    /\ exit = "final"
    /\ Len(results) = 2
    /\ Len(tool_calls) = 2
    /\ results[1].name = "create_order"
    /\ results[1].arguments = "[1]"
    /\ results[2].name = "check_medicine_availability"
    /\ results[2].arguments = JsonDumps(ORDER_ARGS)

\* the text is the description, alone or after the executor's prefix
CarriesDescription(text, name, desc) ==
    text \in {PyStr(desc), PyStr("Tool " \o name \o " raised an exception: " \o desc)}

\* the number of tool-result messages of the transcript that carry the id
ToolResultsFor(id) ==
    Cardinality({j \in DOMAIN messages :
                    messages[j].role = "tool" /\ messages[j].tool_call_id = id})

\* C11: when the body of a registered capability function raises, the failure
\* is caught: the Invocation Result has a non-null error field carrying the
\* failure's description, exactly one tool-result message answers the
\* invocation, and the run goes on to a Final Answer.
C11_HandlerFailure ==
    \A i \in DOMAIN results :
        results[i].raised # "" =>
            /\ raised = ""
            /\ HasKey(results[i].result, "error")
            /\ Get(results[i].result, "error") # Null
            /\ CarriesDescription(Get(results[i].result, "error"),
                                  results[i].name, results[i].desc)
            /\ ToolResultsFor(results[i].id) = 1
            /\ pc # "DONE" => ENABLED Next

\* the part of C11 the code keeps: a failure the executor reports as a handler
\* failure carries its description
C11_Reported ==
    \A i \in DOMAIN results :
        (results[i].raised \notin {"", "TypeError"}) =>
            /\ Get(results[i].result, "error") =
                   PyStr("Tool " \o results[i].name \o " raised an exception: "
                         \o results[i].desc)
            /\ ToolResultsFor(results[i].id) = 1

\* the Invocation Result reports a failure: its error field is set
FailedResult(r) == HasKey(r.result, "error") /\ Get(r.result, "error") # Null

\* the step executes the current invocation
Executes == pc = "EXECUTING_TOOLS" /\ Len(results') = Len(results) + 1

\* C12: within a round, an invocation that fails (undecodable arguments,
\* unknown capability, invalid arguments, handler failure) is answered by its
\* tool-result and the round goes on with the next invocation, which can be
\* executed; after the last one the loop is back in AWAITING_MODEL with every
\* invocation of the round answered, and the run has not ended.
C12_PartialFailureIsolation ==
    /\ [][(Executes /\ FailedResult(results'[Len(results')])) =>
            /\ messages' = Append(messages,
                   [role |-> "tool", tool_call_id |-> Current.id,
                    name |-> Current.function.name,
                    content |-> JsonDumps(results'[Len(results')].result)])
            /\ idx' = idx + 1
            /\ tool_calls' = tool_calls
            /\ pc' = IF idx < Len(tool_calls) THEN "EXECUTING_TOOLS" ELSE "AWAITING_MODEL"
            /\ end_traces' = <<>>]_vars
    /\ [](pc = "EXECUTING_TOOLS" =>
            /\ idx <= Len(tool_calls)
            /\ BackendResponses(tool_calls[idx].function.name) # {})
    /\ []((pc = "AWAITING_MODEL" /\ tool_calls # <<>>) =>
            \A i \in DOMAIN tool_calls :
                /\ messages[Len(messages) - Len(tool_calls) + i].role = "tool"
                /\ messages[Len(messages) - Len(tool_calls) + i].tool_call_id = tool_calls[i].id)

C12_Witness ==
    /\ pc = "AWAITING_MODEL"
    /\ Len(tool_calls) = 2
    /\ Len(results) = 2
    /\ results[1].raised = "AttributeError"
    /\ FailedResult(results[1])
    /\ Get(results[2].result, "status") = PyStr("approved")
    /\ messages[Len(messages)].content = JsonDumps(results[2].result)

\* C13: the run ends with the answer of the catch-all handler only when a
\* model call failed; a step taken in EXECUTING_TOOLS (decoding, lookup,
\* handler, serialisation, span logging) never ends the run.
C13_OnlyModelCallAborts ==
    /\ [][exit' = "caught" =>
            pc = "AWAITING_MODEL" /\ llm_calls' = llm_calls + 1]_vars
    /\ [][pc = "EXECUTING_TOOLS" =>
            pc' \in {"EXECUTING_TOOLS", "AWAITING_MODEL"} /\ end_traces' = <<>>]_vars

\* C14: when a failure reaches the loop boundary, in whatever round, the run
\* returns a Final Answer with status error, a message that contains the
\* failure's description and no order_id, and after the failure no model call
\* is made, no handler is entered and the transcript is not extended.
C14_LoopBoundaryAnswer ==
    /\ []((pc = "DONE" /\ exit = "caught") =>
            /\ raised = ""
            /\ Keys(result) = {"message", "status"}
            /\ Get(result, "status") = PyStr("error")
            /\ Len(end_traces) = 1
            /\ end_traces[1].error # PyNone
            /\ Get(result, "message") =
                   PyStr("Unexpected error in agent: " \o end_traces[1].error))
    /\ [][exit = "caught" =>
            /\ llm_calls' = llm_calls
            /\ handler_calls' = handler_calls
            /\ messages' = messages]_vars

C14_Witness ==
    /\ pc = "DONE"
    /\ exit = "caught"
    /\ llm_calls = 2
    /\ Len(results) = 1
    /\ Get(results[1].result, "status") = PyStr("approved")
    /\ Get(result, "message") = PyStr("Unexpected error in agent: Connection error.")

\* C15: on every path by which the run returns (final answer of the model,
\* exhausted budget, caught failure) end_trace has been called exactly once,
\* not before the run ends, with the returned Final Answer as its output; the
\* failure is attached exactly when the run ended through the catch-all path.
C15_EndTraceOnce ==
    /\ pc # "DONE" => end_traces = <<>>
    /\ pc = "DONE" =>
          /\ exit \in {"final", "budget", "caught"}
          /\ Len(end_traces) = 1
          /\ end_traces[1].output = result
          /\ (end_traces[1].error # PyNone) <=> (exit = "caught")

C15_Witness ==
    /\ pc = "DONE"
    /\ exit = "budget"
    /\ tracing
    /\ Len(results) = 2
    /\ end_traces = <<[output |-> BudgetAnswer, error |-> PyNone]>>

\* a is an initial part of b
IsPrefix(a, b) == Len(a) <= Len(b) /\ SubSeq(b, 1, Len(a)) = a

\* the text names the customer id where the instructions give it
NamesCustomer(text, cid) ==
    text = "You are an expert licensed pharmacist assistant. Current customer id: "
           \o ToString(cid)
           \o ". Respond with a single JSON object only. Examples of valid responses: "
           \o "{ \"message\"} { \"message\"} { \"message\"} { \"message\"} { \"message\"}"
           \o " If the backend is unavailable or a tool fails, explain this."

\* C16: the transcript starts as the system message with the customer id
\* followed by the user message with the request; every step leaves the
\* transcript as it is or appends to it; the transcript passed to a model
\* call is the current one and strictly extends the one passed to the
\* previous model call.
C16_TranscriptAppendOnly ==
    /\ [](/\ Len(messages) >= 2
          /\ messages[1].role = "system"
          /\ NamesCustomer(messages[1].content, customer_id)
          /\ messages[2] = [role |-> "user", content |-> user_input])
    /\ [][IsPrefix(messages, messages')]_vars
    /\ [][llm_calls' = llm_calls + 1 =>
            /\ sent' = messages
            /\ llm_calls = 0 => Len(sent') = 2
            /\ llm_calls >= 1 => IsPrefix(sent, sent') /\ Len(sent) < Len(sent')]_vars

C16_Witness ==
    /\ llm_calls = 2
    /\ Len(sent) = 5
    /\ sent[3].role = "assistant"
    /\ sent[4].role = "tool"
    /\ sent[5].role = "tool"
    /\ messages = sent

\* the ids of the invocations the assistant message at position p requests
RequestedIds(p) == {messages[p].tool_calls[i].id : i \in DOMAIN messages[p].tool_calls}

\* C17: in every transcript, the id of each tool-result message is the id of
\* an invocation requested by an assistant message that comes earlier, with
\* no other assistant message between the two.
C17_ToolResultIdMatches ==
    \A j \in DOMAIN messages :
        messages[j].role = "tool" =>
            \E p \in 1..(j - 1) :
                /\ messages[p].role = "assistant"
                /\ messages[j].tool_call_id \in RequestedIds(p)
                /\ \A q \in (p + 1)..(j - 1) : messages[q].role # "assistant"

C17_Witness ==
    /\ Len(messages) = 6
    /\ messages[3].role = "assistant"
    /\ messages[4].role = "tool"
    /\ messages[5].role = "assistant"
    /\ messages[6].role = "tool"
    /\ messages[4].tool_call_id = "call_1"
    /\ messages[6].tool_call_id = "call_2"

\* the position of the latest assistant message, 0 when there is none
LastAssistant ==
    IF \E p \in DOMAIN messages : messages[p].role = "assistant"
    THEN CHOOSE p \in DOMAIN messages :
             /\ messages[p].role = "assistant"
             /\ \A q \in DOMAIN messages : messages[q].role = "assistant" => q <= p
    ELSE 0

\* C18: within a round the invocations are executed one at a time in the
\* order of the request: the i-th message after an assistant message is the
\* tool-result of its i-th request, whether it failed or not; invocation i
\* is executed when exactly i - 1 results of the round are in the transcript;
\* no model call is made while a request of the round is unanswered.
C18_InOrderExecution ==
    /\ [](\A p \in DOMAIN messages :
            messages[p].role = "assistant" =>
                \A i \in DOMAIN messages[p].tool_calls :
                    p + i <= Len(messages) =>
                        /\ messages[p + i].role = "tool"
                        /\ messages[p + i].tool_call_id = messages[p].tool_calls[i].id
                        /\ messages[p + i].name = messages[p].tool_calls[i].function.name)
    /\ [](\A k \in DOMAIN results : results[k].id = "call_" \o ToString(k))
    /\ [][Executes =>
            /\ Len(messages) = LastAssistant + idx - 1
            /\ results'[Len(results')].id = messages[LastAssistant].tool_calls[idx].id
            /\ Len(results') = Len(results) + 1]_vars
    /\ [][llm_calls' # llm_calls =>
            /\ pc = "AWAITING_MODEL"
            /\ \A p \in DOMAIN messages :
                   messages[p].role = "assistant" => RoundAnswered(p)]_vars

C18_Witness ==
    /\ Len(messages) = 5
    /\ messages[3].role = "assistant"
    /\ messages[4].tool_call_id = "call_1"
    /\ messages[4].name = "cancel_order"
    /\ messages[5].tool_call_id = "call_2"
    /\ messages[5].name = "check_medicine_availability"
    /\ FailedResult(results[1])
    /\ ~FailedResult(results[2])

\* C19: a Final Answer is produced at most once in a run, and producing it
\* ends the run: the run is DONE exactly when an answer has been produced, and
\* from then on no step is taken, so no model call is made, no handler is
\* entered and the transcript is not extended.
C19_AtMostOneFinalAnswer ==
    /\ []((exit # "") <=> (pc = "DONE"))
    /\ [](Len(end_traces) <= 1)
    /\ [](pc = "DONE" => ~ENABLED Next)
    /\ [][/\ exit = ""
          /\ pc # "DONE"
          /\ exit' # "" => result' = end_traces'[1].output
          /\ exit' = "" => result' = result]_vars

C19_Witness ==
    /\ pc = "DONE"
    /\ exit = "final"
    /\ handler_calls = 2
    /\ llm_calls = 2
    /\ result = APPROVED_ANSWER
    /\ ~ENABLED Next

\* the spans of the capability invocations, in the order they were logged
ToolSpans ==
    SelectSeq(spans, LAMBDA n : n \notin {"pharmacy-agent-run", "llm-generation",
                                          "tool:warehouse_webhook"})

\* the number of tool-result messages in the transcript
ToolMessages == Cardinality({j \in DOMAIN messages : messages[j].role = "tool"})

\* the k-th invocation executed has exactly one span, named after the
\* requested capability, and no tool-result is in the transcript without the
\* span of its invocation
OneSpanEach ==
    /\ Len(ToolSpans) = Len(results)
    /\ \A k \in DOMAIN results : ToolSpans[k] = "tool:" \o results[k].name
    /\ ToolMessages <= Len(ToolSpans)

CreatedOrder(r) ==
    /\ r.name = "create_order"
    /\ HasKey(r.result, "order_id")
    /\ Get(r.result, "order_id") # Null
    /\ Get(r.result, "status") \in {PyStr("approved"), PyStr("pending")}

\* the spans the invocations rs are to leave: one per invocation, followed by
\* one warehouse_webhook span exactly when the invocation created an order
RECURSIVE ExpectedSpans(_)
ExpectedSpans(rs) ==
    IF rs = <<>> THEN <<>>
    ELSE <<"tool:" \o Head(rs).name>>
         \o (IF CreatedOrder(Head(rs)) THEN <<"tool:warehouse_webhook">> ELSE <<>>)
         \o ExpectedSpans(Tail(rs))

\* the spans logged inside the rounds of tool execution
InvocationSpans ==
    SelectSeq(spans, LAMBDA n : n \notin {"pharmacy-agent-run", "llm-generation"})

\* the step executes an invocation and leaves the transcript and the loop as
\* an invocation without synthetic span does
PlainStep ==
    /\ messages' = Append(messages,
           [role |-> "tool", tool_call_id |-> Current.id, name |-> Current.function.name,
            content |-> JsonDumps(results'[Len(results')].result)])
    /\ idx' = idx + 1
    /\ pc' = IF idx < Len(tool_calls) THEN "EXECUTING_TOOLS" ELSE "AWAITING_MODEL"
    /\ UNCHANGED <<result, exit, end_traces, step, tool_calls>>

C22_ObservabilityNeverInfluences ==
    /\ ~tracing => spans = <<>> /\ trace_url = PyNone
    /\ (pc = "AWAITING_MODEL" /\ HasBudget /\ api_key_set) => ENABLED LLMAnswers
    /\ (pc = "DONE" /\ exit = "caught") =>
          Get(result, "message") # PyStr("Unexpected error in agent: " \o SpanFailure.desc)

\* the part of C22 the code keeps: with the client not configured, or
\* configured and working, the steps of the run are the same
C22_NoOpWhenUnconfigured ==
    /\ ~tracing => spans = <<>> /\ trace_url = PyNone
    /\ (~langfuse_failing /\ pc = "AWAITING_MODEL" /\ HasBudget /\ api_key_set) =>
          ENABLED LLMAnswers

\* the locals of a run that executes alone and receives evs
RECURSIVE Replay(_, _, _)
Replay(run, reg, evs) ==
    IF evs = <<>> THEN run
    ELSE Replay(RunStep(run, reg, Head(evs)), reg, Tail(evs))

NullOr(v, type) == v = Null \/ v.type = type

\* the shape each capability function declares for its result
DeclaredShape(name, d) ==
    CASE name = "check_medicine_availability" ->
           /\ Keys(d) = {"available", "stock_quantity", "prescription_required", "error"}
           /\ Get(d, "available").type = "bool"
           /\ Get(d, "stock_quantity").type = "int"
           /\ Get(d, "prescription_required").type = "bool"
           /\ NullOr(Get(d, "error"), "str")
      [] name = "create_order" ->
           /\ Keys(d) = {"status", "order_id", "reason", "error"}
           /\ Get(d, "status") \in {PyStr("approved"), PyStr("pending"), PyStr("rejected")}
           /\ NullOr(Get(d, "order_id"), "int")
           /\ NullOr(Get(d, "reason"), "str")
           /\ NullOr(Get(d, "error"), "str")
      [] name = "get_customer_history" ->
           /\ Keys(d) = {"history", "error"}
           /\ Get(d, "history").type = "list"
           /\ NullOr(Get(d, "error"), "str")
      [] OTHER ->
           /\ Keys(d) = {"alerts", "error"}
           /\ Get(d, "alerts").type = "list"
           /\ NullOr(Get(d, "error"), "str")

\* the safe defaults of each capability, with an error reported
SafeDefaults(name, d) ==
    /\ Get(d, "error") # Null
    /\ CASE name = "check_medicine_availability" ->
              /\ Get(d, "available") = PyBool(FALSE)
              /\ Get(d, "stock_quantity") = PyInt("0")
         [] name = "create_order" ->
              /\ Get(d, "status") = PyStr("rejected")
              /\ Get(d, "order_id") = Null
         [] name = "get_customer_history" -> Get(d, "history") = PyList("[]")
         [] OTHER -> Get(d, "alerts") = PyList("[]")

\* C24: for every answer of the backend, each of the four capability
\* functions returns, without raising, a result of its declared shape; when
\* the backend is unreachable the result has a non-null error and the safe
\* defaults.
C24_CapabilitiesNeverRaise ==
    call.done =>
        /\ call.outcome.raised = ""
        /\ DeclaredShape(call.name, call.outcome.value)
        /\ call.resp.kind = "unreachable" => SafeDefaults(call.name, call.outcome.value)

\* the part of C24 the code keeps: no connection, a timeout, an HTTP error
\* status and a body that is no JSON give the safe defaults with an error
C24_FailuresAbsorbed ==
    (/\ call.done
     /\ \/ call.resp.kind = "unreachable"
        \/ call.resp.status >= 400
        \/ call.resp.text = "<html>") =>
        /\ call.outcome.raised = ""
        /\ DeclaredShape(call.name, call.outcome.value)
        /\ SafeDefaults(call.name, call.outcome.value)

\* the medicine a requested name designates, 0 when there is none
Designated(name) ==
    CASE name \in {"Paracetamol", " paracetamol "} -> 1
      [] name \in {"Amoxicillin", "AMOXICILLIN "} -> 2
      [] OTHER -> 0

\* the reason a request is to be rejected for, in the order of the checks
ExpectedReason(payload, stock) ==
    IF payload.customer_id \notin {1, 2} THEN "Customer not found"
    ELSE IF Designated(payload.medicine_name) = 0 THEN "Medicine not found"
    ELSE IF payload.quantity <= 0 THEN "Quantity must be greater than zero"
    ELSE IF stock[Designated(payload.medicine_name)] < payload.quantity
    THEN "Insufficient stock"
    ELSE ""

Received == 1..Len(reqs)

\* request r takes a step from position from to position to
Moves(r, from, to) == r \in Received /\ reqs[r].pc = from /\ reqs'[r].pc = to

Leaves(r, from) == r \in Received /\ reqs[r].pc = from /\ reqs'[r].pc # from

\* every response has one of the three statuses, and
\* there is one order and one item for each request that was not rejected
StatusAndRows ==
    /\ \A r \in Received :
         reqs[r].pc = "DONE" => reqs[r].response.status \in {"approved", "pending", "rejected"}
    /\ Len(db.orders) = Cardinality({r \in Received : reqs[r].order_id # NoOrder})
    /\ Len(db.items) = Len(db.orders)

\* C25: create_order rejects with a null order_id for an unknown customer,
\* an unknown medicine, quantity <= 0 and insufficient stock, checked in
\* this order; otherwise it creates exactly one order with one item,
\* decrements the stock by quantity and returns the order id with status
\* pending for a prescription medicine and approved otherwise.
C25_CreateOrder ==
    /\ []StatusAndRows
    /\ [][\A r \in 1..MaxRequests :
           /\ Leaves(r, "RECEIVED") =>
                LET reason == ExpectedReason(reqs[r].payload, db.stock)
                IN IF reason # ""
                   THEN /\ reqs'[r].pc = "DONE"
                        /\ reqs'[r].response = [status |-> "rejected", order_id |-> NoOrder,
                                                reason |-> reason]
                   ELSE reqs'[r].pc = "CHECKED"
           /\ Leaves(r, "CHECKED") =>
                LET m == Designated(reqs[r].payload.medicine_name)
                    q == reqs[r].payload.quantity
                IN /\ Len(db'.orders) = Len(db.orders) + 1
                   /\ Len(db'.items) = Len(db.items) + 1
                   /\ SubSeq(db'.orders, 1, Len(db.orders)) = db.orders
                   /\ SubSeq(db'.items, 1, Len(db.items)) = db.items
                   /\ db'.items[Len(db'.items)] =
                          [order_id |-> db'.orders[Len(db'.orders)].id, medicine_id |-> m,
                           quantity |-> q]
                   /\ db'.stock = [db.stock EXCEPT ![m] = @ - q]
           /\ Moves(r, "NOTIFIED", "DONE") =>
                LET m == Designated(reqs[r].payload.medicine_name)
                IN /\ reqs'[r].response.order_id # NoOrder
                   /\ reqs'[r].response.order_id = db.orders[Len(db.orders)].id
                   /\ db.orders[Len(db.orders)].status = reqs'[r].response.status
                   /\ reqs'[r].response.status = IF m = 2 THEN "pending" ELSE "approved"]_vars

\* a prescription order was answered as pending, after an order was approved
C25_Witness ==
    \E r, q \in Received :
        /\ reqs[r].pc = "DONE" /\ reqs[r].response.status = "approved"
        /\ reqs[q].pc = "DONE" /\ reqs[q].response.status = "pending"
        /\ reqs[q].response.order_id = 2

\* a rejected request owns no order, and every order,
\* item and notice belongs to a request that was not rejected
NothingForRejected ==
    /\ \A r \in Received :
         (reqs[r].pc = "DONE" /\ reqs[r].response.status = "rejected") =>
             reqs[r].order_id = NoOrder
    /\ \A i \in 1..Len(notices) :
         \E r \in Received :
             reqs[r].order_id = notices[i].order_id /\ notices[i].order_id # NoOrder

\* C26: a rejected create_order leaves the database as it was and triggers
\* no webhook and no email.
C26_RejectionChangesNothing ==
    /\ []NothingForRejected
    /\ [][\A r \in 1..MaxRequests :
           (/\ r \in Received
            /\ reqs[r].pc # "DONE"
            /\ reqs'[r].pc = "DONE"
            /\ reqs'[r].response.status = "rejected") =>
               /\ db' = db
               /\ notices' = notices
               /\ reqs[r].pc = "RECEIVED"]_vars

\* a request was rejected for insufficient stock after an order was created
C26_Witness ==
    \E r \in Received :
        /\ reqs[r].pc = "DONE"
        /\ reqs[r].response.reason = "Insufficient stock"
        /\ Len(db.orders) = 1
        /\ Len(notices) > 0

RECURSIVE Ordered(_, _)
\* the sum of the quantities of the order items of medicine m
Ordered(items, m) ==
    IF items = <<>> THEN 0
    ELSE (IF Head(items).medicine_id = m THEN Head(items).quantity ELSE 0)
         + Ordered(Tail(items), m)

\* C27: with requests processed one at a time, the stock of every medicine is
\* never negative and its initial stock is its current stock plus the
\* quantities of the order items created for it.
C27_StockConservation ==
    \A m \in MedicineIds :
        /\ db.stock[m] >= 0
        /\ db.initial[m] = db.stock[m] + Ordered(db.items, m)

\* two orders, one approved and one pending, used up the stock of a medicine
C27_Witness ==
    /\ Len(db.items) = 2
    /\ \E m \in MedicineIds : db.stock[m] = 0 /\ Ordered(db.items, m) = MaxStock
    /\ \A r \in Received : reqs[r].pc = "DONE"

\* C28: for every interleaving of concurrent requests for one medicine, the
\* quantity of the order items created never exceeds the initial stock, and
\* once the requests are done no decrement is lost.
C28_NoOversellingConcurrently ==
    \A m \in MedicineIds :
        /\ Ordered(db.items, m) <= db.initial[m]
        /\ (\A r \in Received : reqs[r].pc = "DONE") =>
               db.initial[m] = db.stock[m] + Ordered(db.items, m)

\* every webhook and email is for a created order whose order row, item and
\* stock decrement are committed, and an email follows its webhook
NotifiedAfterCommit ==
    \A i \in 1..Len(notices) :
        /\ \E o \in 1..Len(db.orders) :
              /\ db.orders[o].id = notices[i].order_id
              /\ db.orders[o].status \in {"approved", "pending"}
              /\ \E j \in 1..Len(db.items) : db.items[j].order_id = notices[i].order_id
        /\ \E r \in Received :
              /\ reqs[r].order_id = notices[i].order_id
              /\ reqs[r].pc \in {"NOTIFIED", "DONE"}
              /\ db.initial[reqs[r].medicine] - db.stock[reqs[r].medicine]
                     >= reqs[r].payload.quantity
        /\ notices[i].kind = "email" =>
              /\ i > 1
              /\ notices[i - 1].kind = "webhook"
              /\ notices[i - 1].order_id = notices[i].order_id
              /\ notices[i - 1].outcome # "raised"

PurchaseDays == {Date(refill.dates[i]) : i \in 1..Len(refill.dates)}

LastDay == CHOOSE d \in PurchaseDays : \A e \in PurchaseDays : e <= d

FirstDay == CHOOSE d \in PurchaseDays : \A e \in PurchaseDays : d <= e

\* C30: the interval is 30 days for one purchase or for purchases all on one
\* day, otherwise the mean of the positive day gaps between consecutive
\* purchases (their sum is the span from the first day to the last, their
\* number one less than the number of days); there is an alert if and only
\* if today is strictly after the last purchase date plus the interval, and
\* an alert has days_overdue >= 1, today minus its estimated due date.
C30_RefillRule ==
    (refill.done /\ refill.dates # <<>>) =>
        LET gaps == Cardinality(PurchaseDays) - 1
            after == refill.today - LastDay
            due == IF gaps = 0
                   THEN after > 30
                   ELSE after * gaps > LastDay - FirstDay
        IN /\ refill.alert.present <=> due
           /\ refill.alert.present =>
                 /\ refill.alert.days_overdue >= 1
                 /\ refill.alert.days_overdue =
                        refill.today - refill.alert.estimated_refill_due_date

\* an alert, one day overdue, for purchases given out of order whose gaps of
\* one day and two days have a mean that is no whole number of days
C30_Witness ==
    /\ refill.done
    /\ refill.alert.present
    /\ Len(refill.dates) = 3
    /\ refill.dates[1] > refill.dates[2]
    /\ Cardinality(PurchaseDays) = 3
    /\ LastDay - FirstDay = 3
    /\ refill.today = LastDay + 2
    /\ refill.alert.days_overdue = 1

\* an alert under the default interval, one day after it ran out
C30_WitnessDefault ==
    /\ refill.done
    /\ refill.alert.present
    /\ Cardinality(PurchaseDays) = 1
    /\ refill.today = LastDay + 31

\* C31: get_refill_alerts_for_customer never raises, returns the empty list
\* on any failure, and closes a session it opened exactly once before it
\* returns.
C31_ServiceNeverRaises ==
    /\ service.pc # "RAISED"
    /\ service.raised = ""
    /\ (service.pc = "RETURNED" /\ service.failed # "") => service.result = <<>>
    /\ service.pc = "RETURNED" =>
           service.closes = IF service.session = "none" THEN 0 ELSE 1

\* the part of C31 the code keeps: a failure of the session factory, the
\* query or the computation gives the empty list, and a session that was
\* opened is closed once, never twice, when the function is left
C31_FailuresGiveNoAlerts ==
    /\ (service.pc \in {"FINALLY", "RETURNED"} /\ service.failed # "") =>
           service.result = <<>>
    /\ service.failed = "session" => service.session = "none"
    /\ service.closes <= 1
    /\ service.pc \in {"RETURNED", "RAISED"} =>
           service.closes = IF service.session = "none" THEN 0 ELSE 1

RowsIn(table) == {table[i] : i \in 1..Len(table)}

SameRecords(a, b) ==
    /\ RowsIn(a.medicines) = RowsIn(b.medicines)
    /\ RowsIn(a.customers) = RowsIn(b.customers)
    /\ RowsIn(a.orders) = RowsIn(b.orders)
    /\ RowsIn(a.items) = RowsIn(b.items)

\* C32: calling load_initial_data again on the same files leaves the same
\* medicines, customers, orders and order items as calling it once, also
\* for history rows whose date is missing or cannot be parsed.
C32_LoadIdempotent ==
    loader.calls >= 2 => SameRecords(loader.tables, loader.after_first)

\* a history row that is loaded and whose date is not given by the file
Undated(row) == row.medicine_name # "" /\ row.quantity > 0 /\ ReadsClock(row.date)

\* the part of C32 the code keeps: when every loaded history row has a date
\* the file gives, a later call creates no record
C32_DatedRowsIdempotent ==
    (/\ loader.calls >= 2
     /\ \A i \in 1..Len(loader.history) : ~Undated(loader.history[i])) =>
        SameRecords(loader.tables, loader.after_first)

\* the invocations of the latest round are answered: the transcript ends
\* with one tool-result message for each, in order, holding the result of
\* the invocation executed for it
LastRoundAnswered ==
    LET p == LastAssistant
        calls == messages[p].tool_calls
        n == Len(calls)
    IN /\ p > 0
       /\ Len(messages) = p + n
       /\ Len(results) >= n
       /\ \A i \in 1..n :
             LET executed == results[Len(results) - n + i]
             IN /\ executed.id = calls[i].id
                /\ executed.name = calls[i].function.name
                /\ messages[p + i].role = "tool"
                /\ messages[p + i].tool_call_id = calls[i].id
                /\ messages[p + i].content = JsonDumps(executed.result)

\* C33: the invocations requested by the last permitted model response are
\* executed and their tool-result messages appended, although no model call
\* reads them; the run then returns the budget-exhausted answer, also after
\* a create_order of the run created an order.
C33_LastRoundExecuted ==
    /\ []((pc = "DONE" /\ exit = "budget" /\ max_steps >= 1) =>
             /\ step = max_steps
             /\ llm_calls = max_steps
             /\ LastRoundAnswered
             /\ Get(result, "status") = PyStr("error")
             /\ ~HasKey(result, "order_id"))
    /\ [][(pc = "EXECUTING_TOOLS" /\ step = max_steps) =>
             /\ idx <= Len(tool_calls)
             /\ Len(results') = Len(results) + 1
             /\ results'[Len(results')].id = tool_calls[idx].id
             /\ handler_calls' >= handler_calls]_vars
    /\ [][(pc = "AWAITING_MODEL" /\ step + 1 = max_steps /\ issued' > issued) =>
             pc' = "EXECUTING_TOOLS" /\ idx' = 1 /\ Len(tool_calls') > 0]_vars

\* the run returned the budget-exhausted answer after the create_order of
\* its last round returned an approved order
C33_Witness ==
    /\ pc = "DONE"
    /\ exit = "budget"
    /\ max_steps = 2
    /\ Get(result, "status") = PyStr("error")
    /\ Len(results) >= 1
    /\ CreatedOrder(results[Len(results)])
    /\ Get(results[Len(results)].result, "status") = PyStr("approved")
    /\ messages[Len(messages)].role = "tool"

\* C34: with max_steps <= 0 the run calls no model and executes no
\* capability, leaves the transcript at its two seed messages, and returns
\* the budget-exhausted answer with status error after one call of end_trace.
C34_NoBudgetNoCalls ==
    max_steps <= 0 =>
        /\ pc \in {"AWAITING_MODEL", "DONE"}
        /\ llm_calls = 0
        /\ handler_calls = 0
        /\ results = <<>>
        /\ step = 0
        /\ Len(messages) = 2
        /\ messages[1].role = "system"
        /\ messages[2] = [role |-> "user", content |-> user_input]
        /\ raised = ""
        /\ pc = "AWAITING_MODEL" => end_traces = <<>> /\ ~ENABLED LLMCallFails
        /\ pc = "DONE" =>
              /\ exit = "budget"
              /\ Keys(result) = {"message", "status"}
              /\ Get(result, "status") = PyStr("error")
              /\ Get(result, "message") =
                     PyStr("The agent could not complete the request within the step limit.")
              /\ Len(end_traces) = 1
              /\ end_traces[1].output = result

\* a run with a negative max_steps returned, with tracing configured
C34_Witness ==
    /\ pc = "DONE"
    /\ max_steps = -1
    /\ tracing
    /\ Len(end_traces) = 1

====
